---- MODULE Spec2Model ----
(***************************************************************************)
(* Cache manager of the stellar-insights backend (backend/src/cache.rs):   *)
(* cache-aside reads and writes against a key/value store with TTLs, three *)
(* atomic statistics counters, and pattern invalidation.  Concurrent tasks *)
(* call the operations; every access to shared state (one store command,   *)
(* one atomic counter access) is one step.                                 *)
(* Further specifications cover the parts of the backend built on it: the  *)
(* read-through of the anchors API (SpecFetch), the ledger ingestion task   *)
(* (SpecIngest) and the metrics resync task (SpecResync) that main spawns,  *)
(* and the rate limiting of the routes (SpecLimiter).                       *)
(***************************************************************************)
EXTENDS Integers, Sequences, FiniteSets, TLC

\* ------------------------------------------------------------- bounds
\* Calls started over a run.
MaxOps == 3
\* Largest ttl_seconds a caller passes to set (0 is passed too).
MaxTtl == 1

\* Concurrent tasks calling into the cache manager.
Procs == {"p1", "p2"}

\* Keys as their ':'-separated segments ("anchor:1" is <<"anchor", "1">>).
Keys == {<<"anchor", "1">>, <<"anchor", "2">>, <<"corridor", "1">>}
\* Globs passed to delete_pattern, as segments ("anchor:*").
anchor_pattern == <<"anchor", "*">>
corridor_pattern == <<"corridor", "*">>
Globs == {anchor_pattern, corridor_pattern}
NoKey == <<>>

\* Caller-side types T of get<T>, and the values callers pass to set: two of
\* type "A" and one, of shape "U", that serde_json cannot serialize (to_string
\* returns Err).
Types == {"A", "B"}
Values == {[ty |-> "A", n |-> 1], [ty |-> "A", n |-> 2], [ty |-> "U", n |-> 1]}
NoStr == <<>>

\* ------------------------------------------------- pure helpers (serde, glob)
\* serde_json::to_string(value): the stored string carries the value's shape.
to_string(v) ==
  IF v.ty = "U" THEN [ok |-> FALSE, str |-> NoStr]
  ELSE [ok |-> TRUE, str |-> <<v.ty, v.n>>]

\* serde_json::from_str::<T>(str): fails when the string is not of shape T.
from_str(T, s) ==
  IF s # NoStr /\ s[1] = T THEN [ok |-> TRUE, n |-> s[2]]
  ELSE [ok |-> FALSE, n |-> 0]

\* Store-side glob match of KEYS, on segments: a "*" segment stands for one or
\* more whole segments, any other segment for itself.
RECURSIVE GlobMatch(_, _)
GlobMatchAll(pat, key) == TRUE
GlobMatch(pat, key) ==
  IF pat = <<>> THEN key = <<>>
  ELSE IF key = <<>> THEN FALSE
  ELSE IF Head(pat) = "*"
       THEN GlobMatch(Tail(pat), Tail(key)) \/ GlobMatch(pat, Tail(key))
       ELSE Head(pat) = Head(key) /\ GlobMatch(Tail(pat), Tail(key))

\* ------------------------------------------------------------- state
VARIABLES
  redis_connection,  \* TRUE: Some(conn); FALSE: None (fixed by CacheManager::new)
  store,             \* the key/value store: key -> entry
  hits, misses, invalidations,   \* the three AtomicU64 counters
  task,              \* per task: the call in progress and its locals
  nOps,              \* calls started
  nGets,             \* get calls completed
  nResets,           \* reset_stats calls started
  written,           \* per key: value of the last successful set still live
  seen,              \* per task in get_stats: counter triples held during the call
  fetch,             \* per task: the get_or_fetch call in progress (read-through)
  keylog,            \* per key: what is known of its last write and last fill
  ingest,            \* the ledger ingestion task of main and the ledger source
  resync,            \* the metrics resync task of main
  limiter,           \* the rate limiter: window counters and requests in flight
  boot,              \* main: how far startup has come
  lock,              \* the RwLock around the connection and the calls using it
  request,           \* per client: the HTTP request on its way through a router
  calc               \* a pure function applied to an argument, and its result

vars == <<redis_connection, store, hits, misses, invalidations, task,
          nOps, nGets, nResets, written, seen,
          fetch, keylog, ingest, resync, limiter, boot, lock, request, calc>>

\* Startup, the connection lock, routing and the pure helpers.
extra == <<boot, lock, request, calc>>

\* The state of the parts of the backend other than the cache manager.
others == <<fetch, keylog, ingest, resync, limiter, extra>>

Absent == [present |-> FALSE, str |-> NoStr, ttl |-> 0]
NoValue == [ty |-> "-", n |-> 0]

\* Return values: Ok(Some(n)), Ok(None), Ok(()), Err, a CacheStats, or none yet.
RetPending == [tag |-> "pending", n |-> 0]
OkSome(n) == [tag |-> "OkSome", n |-> n]
OkNone == [tag |-> "OkNone", n |-> 0]
OkUnit == [tag |-> "OkUnit", n |-> 0]
RetErr == [tag |-> "Err", n |-> 0]
RetStats == [tag |-> "Stats", n |-> 0]

\* Outcome of one store command as the client sees it.
NoReply == [kind |-> "-", str |-> NoStr, n |-> 0]
Disconnected == [kind |-> "disconnected", str |-> NoStr, n |-> 0]
TransportErr == [kind |-> "err", str |-> NoStr, n |-> 0]
SerializeErr == [kind |-> "serialize_err", str |-> NoStr, n |-> 0]
ReplySome(s) == [kind |-> "some", str |-> s, n |-> 0]
ReplyNone == [kind |-> "none", str |-> NoStr, n |-> 0]
ReplyOk(n) == [kind |-> "ok", str |-> NoStr, n |-> n]
\* A reply once the call has used it: only its kind is kept.
Kind(q) == [kind |-> q.kind, str |-> NoStr, n |-> 0]

Idle ==
  [op |-> "none", pc |-> "idle", glob |-> NoKey, ty |-> "-",
   q |-> NoReply, todo |-> {}, ret |-> RetPending,
   recreated |-> {}, touched |-> {}, removed |-> 0,
   counted |-> 0, counter |-> "none", allok |-> TRUE, expect |-> NoValue,
   presentAtEnum |-> {},
   snap |-> <<0, 0, 0>>, log |-> <<>>, cut |-> <<0, 0, 0>>]

\* ------------------------------------------- the rest of the backend, at rest
\* A task outside get_or_fetch.
FetchIdle ==
  [pc |-> "idle", key |-> NoKey, q |-> NoReply, got |-> RetPending,
   produced |-> 0, val |-> 0, setq |-> NoReply, wrote |-> FALSE,
   warm |-> FALSE, raced |-> FALSE, ret |-> RetPending, status |-> 0]

\* A key never written: ttl0 is the ttl of the last acknowledged SETEX and age
\* the time since it (counted up to ttl0), vals the values producers returned
\* for the key.
NoLog == [ttl0 |-> 0, age |-> 0, vals |-> {}]

\* The ingestion task before its first run_ingestion call, the source empty.
\* cursor is the last ledger ingested, head the last ledger the source has,
\* applied the last ledger whose records were written; result, count and from
\* are the outcome of the last run_ingestion call and the cursor it started
\* from, susp and via the suspensions since that call and the last one's kind,
\* epoch a bit that flips at every call.
IngestStart ==
  [pc |-> "run_ingestion", secs |-> 0, cursor |-> 0, head |-> 0, applied |-> 0,
   result |-> "-", count |-> 0, from |-> 0, susp |-> 0, via |-> "-",
   epoch |-> FALSE]

\* The resync task waiting for the first tick of its interval.
\* dom is the domain being invalidated (0: none) and todo the keys its KEYS
\* returned and not yet deleted; of the current cycle, synced is the outcome of
\* sync_all_metrics, calls the domains invalidated so far, old the keys stored
\* before it and not written since, removed and counted the keys its DELs
\* removed and its fetch_adds, allok whether every store command succeeded;
\* cycles counts the cycles started.
ResyncStart ==
  [pc |-> "tick", dom |-> 0, todo |-> {}, q |-> NoReply, synced |-> "-",
   calls |-> <<>>, old |-> {}, removed |-> {}, counted |-> 0, allok |-> TRUE,
   cycles |-> 0]

\* Requests that arrive, as <<endpoint, address>>: one metered client of
\* /api/anchors and the whitelisted address of /health.
Traffic == {<<"/api/anchors", "10.0.0.1">>, <<"/health", "127.0.0.1">>}
\* Where a window counter lives: the shared store, or the in-process map used
\* when the store does not answer.
Backends == {"shared", "local"}
NoRequest == [to |-> <<>>, backend |-> "-", post |-> 0, verdict |-> "-"]

\* The rate limiter before any request: count holds the window counters, and
\* allowed and rejected the verdicts given in the current window from each
\* counter; last is the latest evaluation.
LimiterStart ==
  [count |-> [b \in Backends |-> [t \in Traffic |-> 0]],
   allowed |-> [b \in Backends |-> [t \in Traffic |-> 0]],
   rejected |-> [b \in Backends |-> [t \in Traffic |-> 0]],
   last |-> NoRequest]

\* main before it has spawned anything: pc is the statement main is at,
\* store_up whether the rate limiter's shared store can be reached, attempts
\* the results of the RateLimiter::new() calls so far, limiter the counters
\* the constructed rate limiter uses ("-": none constructed).
BootStart ==
  [pc |-> "spawn_resync", store_up |-> TRUE, resync_spawned |-> FALSE,
   ingest_spawned |-> FALSE, attempts |-> <<>>, limiter |-> "-"]

\* The connection lock free, no call in flight: per task the cache operation
\* in flight, where it is and the store calls it has still to make; the state
\* of a replace of the connection; the number of replaces done.
NoOp == [kind |-> "-", pc |-> "idle", left |-> 0]
LockStart == [op |-> [p \in Procs |-> NoOp], writer |-> "idle", version |-> 0]

\* No request in any router: per client the path requested, the services the
\* request has still to pass (outermost first), and those it has passed.
NoReq == [path |-> "-", todo |-> <<>>, log |-> <<>>]
RequestStart == [c \in Procs |-> NoReq]

\* No function applied yet: the function, its arguments and its result.
CalcStart == [fn |-> "-", args |-> <<>>, out |-> <<>>]

Init ==
  /\ redis_connection \in BOOLEAN
  /\ store = [k \in Keys |-> Absent]
  /\ hits = 0 /\ misses = 0 /\ invalidations = 0
  /\ task = [p \in Procs |-> Idle]
  /\ nOps = 0 /\ nGets = 0 /\ nResets = 0
  /\ written = [k \in Keys |-> NoValue]
  /\ seen = [p \in Procs |-> {}]
  /\ fetch = [p \in Procs |-> FetchIdle]
  /\ keylog = [k \in Keys |-> NoLog]
  /\ ingest = IngestStart
  /\ resync = ResyncStart
  /\ limiter = LimiterStart
  /\ boot = BootStart /\ lock = LockStart
  /\ request = RequestStart /\ calc = CalcStart

\* A task may start a call when it is not inside one.
CanCall(p) == task[p].pc \in {"idle", "done"} /\ nOps < MaxOps

InStats(t) == t.op = "get_stats" /\ t.pc # "done"

\* What a step by one task leaves in the other tasks' bookkeeping: a reset_stats
\* call logs every fetch_add applied since it began (c), a delete_pattern call
\* the keys written since its enumeration (setKeys).
Noted(t, c, setKeys) ==
  [t EXCEPT !.log = IF t.op = "reset_stats" /\ c # "none" THEN Append(@, c) ELSE @,
            !.recreated = IF t.op = "delete_pattern" THEN @ \cup setKeys ELSE @]

\* Task p moves to record r; c is the counter its step incremented ("none" if
\* none), setKeys the keys its step wrote.
Step(p, r, c, setKeys) ==
  /\ task' = [x \in Procs |-> IF x = p THEN r ELSE Noted(task[x], c, setKeys)]
  /\ seen' = [x \in Procs |->
               IF x = p /\ InStats(r) /\ ~InStats(task[p])
               THEN {<<hits', misses', invalidations'>>}
               ELSE IF InStats(task[x])
                    THEN seen[x] \cup {<<hits', misses', invalidations'>>}
                    ELSE seen[x]]

\* AtomicU64::fetch_add(1, Relaxed) on counter c: one indivisible step.  The
\* counters stay far below 2^64 here, so the wrap-around never shows.
fetch_add(c) ==
  /\ hits' = IF c = "hits" THEN hits + 1 ELSE hits
  /\ misses' = IF c = "misses" THEN misses + 1 ELSE misses
  /\ invalidations' = IF c = "invalidations" THEN invalidations + 1 ELSE invalidations

NoCount == UNCHANGED <<hits, misses, invalidations>>

\* ------------------------------------------------------------- get
\* What the GET command can answer for key k.
GetReplies(k) ==
  IF ~redis_connection THEN {Disconnected}
  ELSE {TransportErr, IF store[k].present THEN ReplySome(store[k].str) ELSE ReplyNone}

\* The counter get increments for each outcome of its match.
GetCounterDropsErr(q) ==
  IF q.kind = "some" THEN "hits" ELSE IF q.kind = "err" THEN "none" ELSE "misses"
GetCounterDropsDisconnected(q) ==
  IF q.kind = "some" THEN "hits"
  ELSE IF q.kind = "disconnected" THEN "none" ELSE "misses"
GetCounter(q) ==
  IF q.kind = "some" THEN "hits" ELSE "misses"

\* What get::<T> returns for each outcome.
GetReturnAlwaysMiss(T, q) == OkNone
GetReturn(T, q) ==
  IF q.kind = "some"
  THEN LET d == from_str(T, q.str) IN IF d.ok THEN OkSome(d.n) ELSE OkNone
  ELSE OkNone

\* get, up to the reply of GET (or the None branch of the connection handle).
get_GET(p, k, T) ==
  /\ CanCall(p)
  /\ NoCount
  /\ \E q \in GetReplies(k) :
       Step(p, [Idle EXCEPT !.op = "get", !.pc = "count", !.ty = T,
                            !.q = q, !.expect = written[k]], "none", {})
  /\ nOps' = nOps + 1
  /\ UNCHANGED <<redis_connection, store, nGets, nResets, written>>

\* get, from the reply on: the fetch_add of its branch, then the return.
get_fetch_add(p) ==
  /\ task[p].op = "get" /\ task[p].pc = "count"
  /\ fetch_add(GetCounter(task[p].q))
  /\ Step(p, [task[p] EXCEPT !.pc = "done", !.ret = GetReturn(task[p].ty, task[p].q),
                             !.q = Kind(task[p].q),
                             !.counter = IF hits' # hits THEN "hits"
                                         ELSE IF misses' # misses THEN "misses"
                                         ELSE "none"],
          GetCounter(task[p].q), {})
  /\ nGets' = nGets + 1
  /\ UNCHANGED <<redis_connection, store, nOps, nResets, written>>

\* ------------------------------------------------------------- set
\* What SETEX key ttl value can answer: the store refuses an expiry of 0.
SetexReplies(ttl) ==
  IF ttl = 0 THEN {TransportErr} ELSE {ReplyOk(0), TransportErr}

\* What set does up to its store command: the outcomes it can meet.
SetOutcomes(v, ttl) ==
  IF ~redis_connection THEN {Disconnected}
  ELSE IF ~to_string(v).ok THEN {SerializeErr}
  ELSE SetexReplies(ttl)

SetReturnPropagates(q) == IF q.kind = "err" THEN RetErr ELSE OkUnit
SetReturn(q) == OkUnit

\* The entry SETEX leaves under the key.
SetexEntryKeepsOld(old, v, ttl) ==
  IF old.present THEN old ELSE [present |-> TRUE, str |-> to_string(v).str, ttl |-> ttl]
SetexEntryOutlivesTtl(old, v, ttl) ==
  [present |-> TRUE, str |-> to_string(v).str, ttl |-> ttl + ttl]
SetexEntry(old, v, ttl) ==
  [present |-> TRUE, str |-> to_string(v).str, ttl |-> ttl]

\* set is one store command at most: one step.
set(p, k, v, ttl) ==
  /\ CanCall(p)
  /\ NoCount
  /\ \E q \in SetOutcomes(v, ttl) :
       /\ IF q.kind = "ok"
          THEN /\ store' = [store EXCEPT ![k] = SetexEntry(@, v, ttl)]
               /\ written' = [written EXCEPT ![k] = v]
          ELSE UNCHANGED <<store, written>>
       /\ Step(p, [Idle EXCEPT !.op = "set", !.pc = "done", !.q = Kind(q),
                               !.ret = SetReturn(q)],
               "none", IF q.kind = "ok" THEN {k} ELSE {})
  /\ nOps' = nOps + 1
  /\ UNCHANGED <<redis_connection, nGets, nResets>>

\* ------------------------------------------------------------- delete
\* What DEL key can answer; the store removes the key when it acknowledges, and
\* reports how many keys it removed.
DelReplies(k) ==
  {TransportErr, ReplyOk(IF store[k].present THEN 1 ELSE 0)}

DeleteOutcomes(k) ==
  IF ~redis_connection THEN {Disconnected} ELSE DelReplies(k)

\* The counter delete increments for each outcome of its match.
DeleteCounterIfExisted(q) ==
  IF q.kind = "ok" /\ q.n = 1 THEN "invalidations" ELSE "none"
DeleteCounter(q) ==
  IF q.kind = "ok" THEN "invalidations" ELSE "none"

DeleteReturn(q) == OkUnit

\* delete, up to the reply of DEL.
delete_DEL(p, k) ==
  /\ CanCall(p)
  /\ NoCount
  /\ \E q \in DeleteOutcomes(k) :
       /\ IF q.kind = "ok"
          THEN /\ store' = [store EXCEPT ![k] = Absent]
               /\ written' = [written EXCEPT ![k] = NoValue]
          ELSE UNCHANGED <<store, written>>
       /\ Step(p, [Idle EXCEPT !.op = "delete", !.q = q,
                               !.pc = IF DeleteCounter(q) = "none" THEN "done" ELSE "count",
                               !.ret = IF DeleteCounter(q) = "none"
                                       THEN DeleteReturn(q) ELSE RetPending],
               "none", {})
  /\ nOps' = nOps + 1
  /\ UNCHANGED <<redis_connection, nGets, nResets>>

\* delete, Ok branch: the fetch_add, then the return.
delete_fetch_add(p) ==
  /\ task[p].op = "delete" /\ task[p].pc = "count"
  /\ fetch_add(DeleteCounter(task[p].q))
  /\ Step(p, [task[p] EXCEPT !.pc = "done", !.ret = DeleteReturn(task[p].q),
                             !.counted = @ + (invalidations' - invalidations)],
          DeleteCounter(task[p].q), {})
  /\ UNCHANGED <<redis_connection, store, nOps, nGets, nResets, written>>

\* ------------------------------------------------------- delete_pattern
\* What KEYS glob answers when it answers: the keys present that match.
KEYS(glob) == {k \in DOMAIN store : store[k].present /\ GlobMatch(glob, k)}

KeysReplies == {TransportErr, [kind |-> "keys", str |-> NoStr, n |-> 0]}

DeletePatternOutcomes(glob) ==
  IF ~redis_connection THEN {Disconnected} ELSE KeysReplies

\* The counter the loop body of delete_pattern increments after a DEL: the
\* reply is dropped (let _ =), so every outcome counts.
DeletePatternCounter(q) == "invalidations"

DeletePatternReturn(q) == OkUnit

\* delete_pattern, up to the reply of KEYS.
delete_pattern_KEYS(p, glob) ==
  /\ CanCall(p)
  /\ NoCount
  /\ \E q \in DeletePatternOutcomes(glob) :
       LET ks == IF q.kind = "keys" THEN KEYS(glob) ELSE {}
       IN Step(p, [Idle EXCEPT !.op = "delete_pattern", !.glob = glob,
                               !.q = q,
                               !.todo = ks,
                               !.presentAtEnum =
                                 IF q.kind = "keys"
                                 THEN {k \in Keys : store[k].present} ELSE {},
                               !.allok = (q.kind = "keys"),
                               !.pc = IF ks = {} THEN "done" ELSE "del",
                               !.ret = IF ks = {} THEN DeletePatternReturn(q)
                                       ELSE RetPending],
               "none", {})
  /\ nOps' = nOps + 1
  /\ UNCHANGED <<redis_connection, store, nGets, nResets, written>>

\* delete_pattern, loop body: DEL of the next enumerated key.
delete_pattern_DEL(p) ==
  /\ task[p].op = "delete_pattern" /\ task[p].pc = "del"
  /\ NoCount
  /\ \E k \in task[p].todo : \E q \in DelReplies(k) :
       /\ IF q.kind = "ok"
          THEN /\ store' = [store EXCEPT ![k] = Absent]
               /\ written' = [written EXCEPT ![k] = NoValue]
          ELSE UNCHANGED <<store, written>>
       /\ Step(p, [task[p] EXCEPT !.pc = "count", !.q = Kind(q),
                                  !.todo = @ \ {k},
                                  !.allok = @ /\ q.kind = "ok",
                                  !.removed = @ + (IF q.kind = "ok" THEN q.n ELSE 0),
                                  !.touched = IF q.kind = "ok" /\ q.n = 1
                                              THEN @ \cup {k} ELSE @],
               "none", {})
  /\ UNCHANGED <<redis_connection, nOps, nGets, nResets>>

\* delete_pattern, loop body: the fetch_add after the DEL; after the last key,
\* the return.
delete_pattern_fetch_add(p) ==
  /\ task[p].op = "delete_pattern" /\ task[p].pc = "count"
  /\ fetch_add(DeletePatternCounter(task[p].q))
  /\ Step(p, [task[p] EXCEPT
                !.counted = @ + (invalidations' - invalidations),
                !.pc = IF task[p].todo = {} THEN "done" ELSE "del",
                !.ret = IF task[p].todo = {} THEN DeletePatternReturn(task[p].q)
                        ELSE RetPending],
          DeletePatternCounter(task[p].q), {})
  /\ UNCHANGED <<redis_connection, store, nOps, nGets, nResets, written>>

\* ------------------------------------------------- get_stats, reset_stats
\* get_stats loads and reset_stats stores the counters in the order hits (1),
\* misses (2), invalidations (3).
\* AtomicU64::load(Relaxed) of the i-th counter.
LoadMixedUp(i) == hits
Load(i) ==
  IF i = 1 THEN hits ELSE IF i = 2 THEN misses ELSE invalidations

\* The pc of the call once its i-th access is made.
AfterAccess(i) == IF i = 3 THEN "done" ELSE IF i = 1 THEN "second" ELSE "third"
AccessAt(pc) == IF pc = "second" THEN 2 ELSE 3

\* get_stats: the first load.
get_stats_load_hits(p) ==
  /\ CanCall(p)
  /\ NoCount
  /\ Step(p, [Idle EXCEPT !.op = "get_stats", !.pc = AfterAccess(1),
                          !.snap = <<Load(1), 0, 0>>], "none", {})
  /\ nOps' = nOps + 1
  /\ UNCHANGED <<redis_connection, store, nGets, nResets, written>>

\* get_stats: the second and the third load, then the return.
get_stats_load(p) ==
  /\ task[p].op = "get_stats" /\ task[p].pc \in {"second", "third"}
  /\ NoCount
  /\ LET i == AccessAt(task[p].pc)
     IN Step(p, [task[p] EXCEPT !.snap = [@ EXCEPT ![i] = Load(i)],
                                !.pc = AfterAccess(i),
                                !.ret = IF i = 3 THEN RetStats ELSE RetPending],
             "none", {})
  /\ UNCHANGED <<redis_connection, store, nOps, nGets, nResets, written>>

\* AtomicU64::store(0, Relaxed) on the i-th counter.
StoreZeroSkipsMisses(i) ==
  /\ hits' = IF i = 1 THEN 0 ELSE hits
  /\ misses' = misses
  /\ invalidations' = IF i = 3 THEN 0 ELSE invalidations
StoreZero(i) ==
  /\ hits' = IF i = 1 THEN 0 ELSE hits
  /\ misses' = IF i = 2 THEN 0 ELSE misses
  /\ invalidations' = IF i = 3 THEN 0 ELSE invalidations

\* reset_stats: the first store.
reset_stats_store_hits(p) ==
  /\ CanCall(p)
  /\ StoreZero(1)
  /\ Step(p, [Idle EXCEPT !.op = "reset_stats", !.pc = AfterAccess(1)], "none", {})
  /\ nOps' = nOps + 1
  /\ nResets' = nResets + 1
  /\ UNCHANGED <<redis_connection, store, nGets, written>>

\* reset_stats: the second and the third store, then the return.
reset_stats_store(p) ==
  /\ task[p].op = "reset_stats" /\ task[p].pc \in {"second", "third"}
  /\ LET i == AccessAt(task[p].pc)
     IN /\ StoreZero(i)
        /\ Step(p, [task[p] EXCEPT !.cut = [@ EXCEPT ![i] = Len(task[p].log)],
                                   !.pc = AfterAccess(i),
                                   !.ret = IF i = 3 THEN OkUnit ELSE RetPending],
                "none", {})
  /\ UNCHANGED <<redis_connection, store, nOps, nGets, nResets, written>>

\* ------------------------------------------------------------- time
\* One second passes at the store: every entry's remaining TTL drops by one and
\* an entry whose TTL is used up is gone.
Tick ==
  /\ \E k \in Keys : store[k].present
  /\ store' = [k \in Keys |->
                IF store[k].present /\ store[k].ttl > 1
                THEN [store[k] EXCEPT !.ttl = @ - 1] ELSE Absent]
  /\ written' = [k \in Keys |->
                  IF store[k].present /\ store[k].ttl > 1 THEN written[k] ELSE NoValue]
  /\ UNCHANGED <<redis_connection, hits, misses, invalidations, task, nOps, nGets,
                 nResets, seen>>

Next ==
  \/ (\E p \in Procs, k \in Keys, T \in Types : get_GET(p, k, T)) /\ UNCHANGED others
  \/ (\E p \in Procs : get_fetch_add(p)) /\ UNCHANGED others
  \/ (\E p \in Procs, k \in Keys, v \in Values, ttl \in 0..MaxTtl : set(p, k, v, ttl)) /\ UNCHANGED others
  \/ (\E p \in Procs, k \in Keys : delete_DEL(p, k)) /\ UNCHANGED others
  \/ (\E p \in Procs : delete_fetch_add(p)) /\ UNCHANGED others
  \/ (\E p \in Procs, glob \in Globs : delete_pattern_KEYS(p, glob)) /\ UNCHANGED others
  \/ (\E p \in Procs : delete_pattern_DEL(p)) /\ UNCHANGED others
  \/ (\E p \in Procs : delete_pattern_fetch_add(p)) /\ UNCHANGED others
  \/ (\E p \in Procs : get_stats_load_hits(p)) /\ UNCHANGED others
  \/ (\E p \in Procs : get_stats_load(p)) /\ UNCHANGED others
  \/ (\E p \in Procs : reset_stats_store_hits(p)) /\ UNCHANGED others
  \/ (\E p \in Procs : reset_stats_store(p)) /\ UNCHANGED others
  \/ (Tick) /\ UNCHANGED others

Spec == Init /\ [][Next]_vars

\* ============================================================== claims
Done(p, op) == task[p].op = op /\ task[p].pc = "done"

\* The keys of a glob's namespace: those whose first segment is the glob's.
SamePrefix(glob, k) == k # <<>> /\ glob # <<>> /\ k[1] = glob[1]

\* C1: with no reset_stats so far, hits + misses is the number of completed
\* get calls, whatever the interleaving and whatever each get met at the store.
C1_HitsPlusMissesCountGets ==
  nResets = 0 => hits + misses = nGets

\* Two gets have completed, one found its key and one met a transport error.
C1_Witness ==
  /\ nResets = 0 /\ nGets = 2 /\ hits = 1
  /\ \E p \in Procs : Done(p, "get") /\ task[p].q.kind = "err"

\* C2: a get that met a transport error, a disconnected store or a stored
\* string it could not deserialize returns None and has incremented misses,
\* not hits.
C2_FailuresCountAsMisses ==
  \A p \in Procs :
    Done(p, "get")
    /\ ( \/ task[p].q.kind \in {"err", "disconnected"}
         \/ (task[p].q.kind = "some" /\ task[p].ret.tag # "OkSome") )
    => task[p].ret = OkNone /\ task[p].counter = "misses"

\* C3: no cache operation returns Err: a completed get returned Ok(Some) or
\* Ok(None), a completed set, delete or delete_pattern Ok(()).
C3_NoErrorReturned ==
  \A p \in Procs :
    /\ task[p].ret.tag # "Err"
    /\ Done(p, "get") => task[p].ret.tag \in {"OkSome", "OkNone"}
    /\ (Done(p, "set") \/ Done(p, "delete") \/ Done(p, "delete_pattern"))
         => task[p].ret = OkUnit

\* A set whose SETEX failed in transport has returned, and a delete whose DEL
\* failed has too.
C3_Witness ==
  /\ \E p \in Procs : Done(p, "set") /\ task[p].q.kind = "err"
  /\ \E p \in Procs : Done(p, "delete") /\ task[p].q.kind = "err"

\* C4: with the connection handle None, the store and the hits and
\* invalidations counters never change, misses counts exactly the completed
\* gets (until a reset), every completed get returned None having counted a
\* miss, and set, delete and delete_pattern returned without a store command.
C4_DegradedMode ==
  ~redis_connection =>
    /\ store = [k \in Keys |-> Absent]
    /\ hits = 0 /\ invalidations = 0
    /\ nResets = 0 => misses = nGets
    /\ \A p \in Procs :
         /\ Done(p, "get") => task[p].ret = OkNone /\ task[p].counter = "misses"
         /\ task[p].op \in {"set", "delete", "delete_pattern"}
              => task[p].pc = "done" /\ task[p].ret = OkUnit
                 /\ task[p].q = Disconnected /\ task[p].counted = 0

\* Degraded: a get has counted its miss, then a set and a delete_pattern ran.
C4_Witness ==
  /\ ~redis_connection /\ misses = 1 /\ nGets = 1
  /\ \E p \in Procs : Done(p, "set")
  /\ \E p \in Procs : Done(p, "delete_pattern")

\* C5: a completed delete_pattern has added to invalidations exactly the
\* number of keys its DEL commands removed from the store.
C5_CountsOnlyRemovedKeys ==
  \A p \in Procs :
    Done(p, "delete_pattern") => task[p].counted = task[p].removed

\* C6: a delete_pattern whose store calls all succeeded leaves no key of the
\* glob's namespace that was present at its KEYS enumeration, unless the key
\* was written again since; and it removed no key outside that namespace.
C6_RemovesMatchingKeysOnly ==
  \A p \in Procs :
    /\ Done(p, "delete_pattern") /\ task[p].allok
         => \A k \in task[p].presentAtEnum :
              SamePrefix(task[p].glob, k)
                => ~store[k].present \/ k \in task[p].recreated
    /\ task[p].op = "delete_pattern"
         => \A k \in task[p].touched : SamePrefix(task[p].glob, k)

\* A delete_pattern has removed a key of its namespace while a key of another
\* namespace, present at the enumeration, is still stored.
C6_Witness ==
  \E p \in Procs :
    /\ Done(p, "delete_pattern") /\ task[p].allok /\ task[p].touched # {}
    /\ \E k \in task[p].presentAtEnum :
         ~SamePrefix(task[p].glob, k) /\ store[k].present

\* C7: a completed delete has incremented invalidations once if the store
\* acknowledged its DEL (key present or not) and not at all otherwise.
C7_DeleteCountsAcknowledgedDel ==
  \A p \in Procs :
    Done(p, "delete") =>
      task[p].counted = (IF task[p].q.kind = "ok" THEN 1 ELSE 0)

\* A delete of a key that was not stored was acknowledged and counted, and a
\* delete whose DEL failed was not.
C7_Witness ==
  /\ \E p \in Procs : Done(p, "delete") /\ task[p].q = ReplyOk(0) /\ task[p].counted = 1
  /\ \E p \in Procs : Done(p, "delete") /\ task[p].q.kind = "err" /\ task[p].counted = 0

\* The fetch_adds on counter c that a reset_stats call logged after the first
\* i entries of its log.
CountAfter(log, c, i) == Cardinality({j \in (i + 1)..Len(log) : log[j] = c})

\* The counters as a triple, and the triple an atomic zeroing placed after the
\* first i logged fetch_adds would leave.
Triple == <<hits, misses, invalidations>>
ZeroedAt(log, i) ==
  <<CountAfter(log, "hits", i), CountAfter(log, "misses", i),
    CountAfter(log, "invalidations", i)>>

\* C8 as claimed: reset_stats zeroes the three counters at one instant.  Once
\* the only reset_stats call has returned, the counters hold exactly the
\* fetch_adds applied after some one instant between its start and its return.
C8_ResetIsOneAtomicZeroing ==
  \A p \in Procs :
    Done(p, "reset_stats") /\ nResets = 1
      => \E i \in 0..task[p].cut[3] : Triple = ZeroedAt(task[p].log, i)

\* C8 as amended: reset_stats zeroes the counters one after the other, each by
\* its own atomic store.  With one reset_stats call, once the store to a counter
\* is done that counter holds exactly the fetch_adds applied to it since that
\* store: hits since the call began, misses since the second store,
\* invalidations since the third.
C8_ResetZeroesEachCounterInTurn ==
  \A p \in Procs :
    task[p].op = "reset_stats" /\ nResets = 1
      => /\ task[p].cut[1] = 0
         /\ hits = CountAfter(task[p].log, "hits", 0)
         /\ task[p].pc \in {"third", "done"}
              => misses = CountAfter(task[p].log, "misses", task[p].cut[2])
         /\ task[p].pc = "done"
              => invalidations
                   = CountAfter(task[p].log, "invalidations", task[p].cut[3])

\* A reset_stats call has returned; a miss counted after it began was kept and
\* an invalidation counted later, before the third store, was discarded.
C8_Witness ==
  \E p \in Procs :
    /\ Done(p, "reset_stats") /\ nResets = 1
    /\ misses = 1 /\ invalidations = 0
    /\ task[p].cut[3] = 2
    /\ task[p].log[1] = "misses" /\ task[p].log[2] = "invalidations"

\* C9 as claimed: the triple get_stats returns is one the three counters held
\* together at some instant during the call.
C9_StatsIsOneAtomicSnapshot ==
  \A p \in Procs :
    Done(p, "get_stats") => task[p].snap \in seen[p]

\* C9 as amended: get_stats loads the counters one after the other; each
\* component of the triple it returns is a value its own counter held at some
\* instant during the call.
C9_StatsLoadsEachCounterInTurn ==
  \A p \in Procs :
    Done(p, "get_stats") =>
      \A i \in 1..3 : \E t \in seen[p] : task[p].snap[i] = t[i]

\* A get_stats call has returned a triple the counters never held together:
\* misses moved between its loads.
C9_Witness ==
  \E p \in Procs :
    /\ Done(p, "get_stats") /\ task[p].snap \notin seen[p]
    /\ task[p].snap[2] = 0 /\ misses = 1

\* C10 as claimed: a get of a key that holds the value of a successful set
\* (not expired, not deleted since) returns that value and counts a hit.
C10_SetValueIsReadBack ==
  \A p \in Procs :
    Done(p, "get") /\ task[p].expect # NoValue
      => task[p].ret = OkSome(task[p].expect.n) /\ task[p].counter = "hits"

\* C10 as amended: such a get counts a hit and returns the value of the latest
\* successful set provided its GET command is answered and it asks for the type
\* the value was written with; a GET that fails in transport is a miss.
C10_SetValueIsReadBackWhenGetSucceeds ==
  \A p \in Procs :
    Done(p, "get") /\ task[p].expect # NoValue
      => /\ task[p].q.kind = "err"
              => task[p].ret = OkNone /\ task[p].counter = "misses"
         /\ task[p].q.kind # "err"
              => /\ task[p].counter = "hits"
                 /\ task[p].ret = IF task[p].ty = task[p].expect.ty
                                  THEN OkSome(task[p].expect.n) ELSE OkNone

\* A key set twice is read back with the second value.
C10_Witness ==
  \E p \in Procs :
    /\ Done(p, "get") /\ task[p].expect = [ty |-> "A", n |-> 2]
    /\ task[p].ret = OkSome(2) /\ hits = 1
    /\ \E x \in Procs : Done(x, "set") /\ task[x].q.kind = "ok"

\* =================================================== read-through (get_or_fetch)
\* get_anchors serves GET /api/anchors through get_or_fetch: look the key up
\* with get; on a value return it; otherwise run the producer, set its result
\* under the key with the ttl, and return it.  A producer error is returned.

\* keys::anchor_list(limit, offset), as segments.
anchor_list(limit, offset) == <<"anchor", "list", limit, offset>>
\* The keys get_anchors asks for: the default page and a shorter one.
FetchKeys == {anchor_list("50", "0"), anchor_list("10", "0")}

\* CacheConfig::default() and CacheConfig::get_ttl.
CacheConfig ==
  [corridor_metrics_ttl |-> 300, anchor_data_ttl |-> 600, dashboard_stats_ttl |-> 60]
get_ttl(key_type) ==
  CASE key_type = "corridor" -> CacheConfig.corridor_metrics_ttl
    [] key_type = "anchor" -> CacheConfig.anchor_data_ttl
    [] key_type = "dashboard" -> CacheConfig.dashboard_stats_ttl
    [] OTHER -> 300

\* Seconds that pass in one step of the clock.
TimeStep == 300

\* The producer of get_anchors: the database answers with the current list
\* (one of two contents) or fails, and `?` returns its error.
ProducerResults == {[ok |-> TRUE, n |-> 1], [ok |-> TRUE, n |-> 2], [ok |-> FALSE, n |-> 0]}

\* impl From<anyhow::Error> for ApiError, and the status of IntoResponse.
ApiError_from_as_BadRequest == "BadRequest"
ApiError_from == "InternalError"
into_response(e) ==
  CASE e = "NotFound" -> 404
    [] e = "BadRequest" -> 400
    [] e = "InternalError" -> 500

\* Variables the read-through steps leave alone.
notFetch == <<task, nGets, nResets, written, seen, ingest, resync, limiter, extra>>

\* get_or_fetch, up to the reply of the GET of its lookup.
get_or_fetch_GET(p, k) ==
  /\ fetch[p].pc \in {"idle", "done"} /\ nOps < MaxOps
  /\ NoCount
  /\ \E q \in GetReplies(k) :
       fetch' = [fetch EXCEPT ![p] =
                   [FetchIdle EXCEPT !.pc = "get_fetch_add", !.key = k, !.q = q,
                                     !.warm = keylog[k].age < keylog[k].ttl0]]
  /\ nOps' = nOps + 1
  /\ UNCHANGED <<redis_connection, store, keylog>>
  /\ UNCHANGED notFetch

\* The rest of the lookup: get counts and returns; a value ends the call.
get_or_fetch_fetch_add(p) ==
  /\ fetch[p].pc = "get_fetch_add"
  /\ fetch_add(GetCounter(fetch[p].q))
  /\ LET got == GetReturn("A", fetch[p].q) IN
       fetch' = [fetch EXCEPT ![p] =
                   IF got.tag = "OkSome"
                   THEN [@ EXCEPT !.pc = "done", !.q = Kind(@), !.got = got,
                                  !.ret = got, !.status = 200]
                   ELSE [@ EXCEPT !.pc = "fetch_fn", !.q = Kind(@), !.got = got]]
  /\ UNCHANGED <<redis_connection, store, keylog, nOps>>
  /\ UNCHANGED notFetch

\* The producer runs; its error ends the call as an ApiError response.
get_or_fetch_fetch_fn(p) ==
  /\ fetch[p].pc = "fetch_fn"
  /\ \E r \in ProducerResults :
       LET raced == \E x \in Procs \ {p} :
                      /\ fetch[x].key = fetch[p].key
                      /\ fetch[x].pc = "set"
       IN
       IF r.ok
       THEN /\ fetch' = [fetch EXCEPT ![p] =
                           [@ EXCEPT !.pc = "set", !.produced = @ + 1, !.val = r.n,
                                     !.raced = raced]]
            /\ keylog' = [keylog EXCEPT ![fetch[p].key] =
                            [@ EXCEPT !.vals = @ \cup {r.n}]]
       ELSE /\ fetch' = [fetch EXCEPT ![p] =
                           [@ EXCEPT !.pc = "done", !.produced = @ + 1,
                                     !.raced = raced, !.ret = RetErr,
                                     !.status = into_response(ApiError_from)]]
            /\ UNCHANGED keylog
  /\ NoCount
  /\ UNCHANGED <<redis_connection, store, nOps>>
  /\ UNCHANGED notFetch

\* The produced value is set under the key with the ttl and returned.
get_or_fetch_set(p) ==
  /\ fetch[p].pc = "set"
  /\ LET k == fetch[p].key
         v == [ty |-> "A", n |-> fetch[p].val]
         ttl == get_ttl("anchor")
     IN \E q \in SetOutcomes(v, ttl) :
          /\ store' = IF q.kind = "ok"
                      THEN [store EXCEPT ![k] = SetexEntry(@, v, ttl)] ELSE store
          /\ keylog' = IF q.kind = "ok"
                       THEN [keylog EXCEPT ![k] = [@ EXCEPT !.ttl0 = ttl, !.age = 0]]
                       ELSE keylog
          /\ fetch' = [fetch EXCEPT ![p] =
                         [@ EXCEPT !.pc = "done", !.setq = Kind(q), !.val = 0,
                                   !.wrote = /\ store'[k].present
                                             /\ from_str("A", store'[k].str).n = v.n
                                             /\ store'[k].ttl = ttl,
                                   !.ret = IF SetReturn(q) = OkUnit
                                           THEN OkSome(v.n) ELSE RetErr,
                                   !.status = IF SetReturn(q) = OkUnit THEN 200
                                              ELSE into_response(ApiError_from)]]
  /\ NoCount
  /\ UNCHANGED <<redis_connection, nOps>>
  /\ UNCHANGED notFetch

\* TimeStep seconds pass: the store drops every entry whose ttl is used up.
Elapse ==
  /\ store' = [k \in DOMAIN store |->
                IF store[k].present /\ store[k].ttl > TimeStep
                THEN [store[k] EXCEPT !.ttl = @ - TimeStep] ELSE Absent]
  /\ keylog' = [k \in DOMAIN keylog |->
                 [keylog[k] EXCEPT
                    !.age = IF @ + TimeStep >= keylog[k].ttl0
                            THEN keylog[k].ttl0 ELSE @ + TimeStep]]
  /\ <<store', keylog'>> # <<store, keylog>>
  /\ UNCHANGED <<redis_connection, hits, misses, invalidations, task, nOps, nGets,
                 nResets, written, seen, fetch, ingest, resync, limiter, extra>>

InitFetch ==
  /\ redis_connection \in BOOLEAN
  /\ store = [k \in FetchKeys |-> Absent]
  /\ hits = 0 /\ misses = 0 /\ invalidations = 0
  /\ task = [p \in Procs |-> Idle]
  /\ nOps = 0 /\ nGets = 0 /\ nResets = 0
  /\ written = [k \in Keys |-> NoValue]
  /\ seen = [p \in Procs |-> {}]
  /\ fetch = [p \in Procs |-> FetchIdle]
  /\ keylog = [k \in FetchKeys |-> NoLog]
  /\ ingest = IngestStart
  /\ resync = ResyncStart
  /\ limiter = LimiterStart
  /\ boot = BootStart /\ lock = LockStart
  /\ request = RequestStart /\ calc = CalcStart

NextFetch ==
  \/ \E p \in Procs, k \in FetchKeys : get_or_fetch_GET(p, k)
  \/ \E p \in Procs : get_or_fetch_fetch_add(p)
  \/ \E p \in Procs : get_or_fetch_fetch_fn(p)
  \/ \E p \in Procs : get_or_fetch_set(p)
  \/ Elapse

SpecFetch == InitFetch /\ [][NextFetch]_vars

\* C11 as stated: a call for a key under which an earlier call stored its result
\* less than the ttl ago (warm) never invokes its producer.
C11_WarmKeyNeverInvokesProducer ==
  \A p \in Procs : fetch[p].warm => fetch[p].produced = 0

\* C11, amended: a get_or_fetch call invokes its producer at most once; a call
\* whose lookup misses invokes it exactly once and, when the producer succeeds,
\* sets the result under the key with the ttl (the entry is there when SETEX is
\* acknowledged); a call whose lookup finds the entry invokes it zero times and
\* returns a value an earlier call produced for the key.
C11_ProducerOncePerCallNoneWhenFound ==
  \A p \in Procs :
    LET f == fetch[p] IN
    /\ f.produced <= 1
    /\ (f.pc = "done" /\ f.q.kind # "some") => f.produced = 1
    /\ (f.pc = "done" /\ f.q.kind # "some" /\ f.ret.tag = "OkSome") =>
         /\ f.setq.kind # "-"
         /\ (f.setq.kind = "ok" => f.wrote)
    /\ (f.pc = "done" /\ f.q.kind = "some") =>
         /\ f.produced = 0
         /\ f.ret.tag = "OkSome"
         /\ f.ret.n \in keylog[f.key].vals

\* A call on a warm key has returned the stored value without producing, and
\* another task's call for the same key ran its producer while a concurrent
\* call for that key was between its own producer and its set.
C11_Witness ==
  \E p \in Procs, x \in Procs :
    /\ p # x
    /\ fetch[p].pc = "done" /\ fetch[p].warm /\ fetch[p].q.kind = "some"
    /\ fetch[p].produced = 0 /\ fetch[p].ret.tag = "OkSome"
    /\ fetch[x].pc = "done" /\ fetch[x].key = fetch[p].key
    /\ fetch[x].raced /\ fetch[x].produced = 1

\* C12: a get_or_fetch call whose producer fails returns the error, which the
\* handler answers as a server error (500); the call issues no set, the failing
\* step leaves the store as it was, and the store only ever holds values a
\* producer returned.
C12_ProducerFailurePropagatesNothingCached ==
  /\ [](\A p \in Procs :
          fetch[p].ret = RetErr =>
            /\ fetch[p].pc = "done" /\ fetch[p].produced = 1
            /\ fetch[p].status = 500
            /\ fetch[p].setq.kind = "-" /\ ~fetch[p].wrote)
  /\ [](\A k \in DOMAIN store :
          store[k].present => from_str("A", store[k].str).n \in keylog[k].vals)
  /\ [][\A p \in Procs :
          (fetch[p].pc = "fetch_fn" /\ fetch'[p].ret = RetErr) => store' = store]_vars

\* A call missed, its producer failed and the caller got the 500; the key is
\* still absent.
C12_Witness ==
  \E p \in Procs :
    /\ fetch[p].pc = "done" /\ fetch[p].ret = RetErr /\ fetch[p].status = 500
    /\ fetch[p].produced = 1 /\ ~store[fetch[p].key].present

\* ================================================ ledger ingestion (catch-up loop)
\* The task main spawns: loop { match run_ingestion(5).await { ... } }.

\* Ledgers the source ever has.
MaxLedger == 6
\* The batch size main passes to run_ingestion.
BatchSize == 5

Min(a, b) == IF a < b THEN a ELSE b
Max(a, b) == IF a < b THEN b ELSE a

\* run_ingestion(limit) from cursor c with the source at head h and ledgers up
\* to a already written: the fetch fails; or it returns the next ledgers, at
\* most limit of them, and either all are applied and the cursor moves past
\* them, or applying fails after some of them and the cursor stays.
RunIngestionSkipsOnError(limit, c, h, a) ==
  LET n == Min(limit, h - c) IN
  {[ok |-> FALSE, count |-> 0, cursor |-> c + n, applied |-> a],
   [ok |-> TRUE, count |-> n, cursor |-> c + n, applied |-> Max(a, c + n)]}
RunIngestion(limit, c, h, a) ==
  LET n == Min(limit, h - c) IN
  {[ok |-> FALSE, count |-> 0, cursor |-> c, applied |-> a],
   [ok |-> TRUE, count |-> n, cursor |-> c + n, applied |-> Max(a, c + n)]}
  \cup {[ok |-> FALSE, count |-> 0, cursor |-> c, applied |-> Max(a, c + j)] :
          j \in 0..(n - 1)}

\* The arm of the match the loop takes on a result: where it suspends, and for
\* how many seconds.
AfterIngestionSpins(r) ==
  IF r.ok THEN [pc |-> "yield_now", secs |-> 0] ELSE [pc |-> "sleep", secs |-> 10]
AfterIngestionAlwaysSleeps(r) ==
  IF r.ok THEN [pc |-> "sleep", secs |-> 5] ELSE [pc |-> "sleep", secs |-> 10]
AfterIngestionStopsOnError(r) ==
  IF r.ok
  THEN IF r.count = 0 THEN [pc |-> "sleep", secs |-> 5]
       ELSE [pc |-> "yield_now", secs |-> 0]
  ELSE [pc |-> "exit", secs |-> 0]
AfterIngestion(r) ==
  IF r.ok
  THEN IF r.count = 0 THEN [pc |-> "sleep", secs |-> 5]
       ELSE [pc |-> "yield_now", secs |-> 0]
  ELSE [pc |-> "sleep", secs |-> 10]

\* Variables the ingestion task leaves alone.
notIngest ==
  <<redis_connection, store, hits, misses, invalidations, task, nOps, nGets,
    nResets, written, seen, fetch, keylog, resync, limiter, extra>>

\* One iteration up to its suspension: the call and the match on its result.
run_ingestion ==
  /\ ingest.pc = "run_ingestion"
  /\ \E r \in RunIngestion(BatchSize, ingest.cursor, ingest.head, ingest.applied) :
       ingest' = [ingest EXCEPT !.pc = AfterIngestion(r).pc,
                                !.secs = AfterIngestion(r).secs,
                                !.cursor = r.cursor, !.applied = r.applied,
                                !.result = IF r.ok THEN "Ok" ELSE "Err",
                                !.count = r.count, !.from = ingest.cursor,
                                !.susp = 0, !.via = "-", !.epoch = ~@]
  /\ UNCHANGED notIngest

\* tokio::time::sleep(secs) is over: back to the top of the loop.
sleep_elapsed ==
  /\ ingest.pc = "sleep"
  /\ ingest' = [ingest EXCEPT !.pc = "run_ingestion", !.susp = @ + 1,
                              !.via = IF ingest.secs = 5 THEN "sleep_5s" ELSE "sleep_10s"]
  /\ UNCHANGED notIngest

\* tokio::task::yield_now() is over: back to the top of the loop.
yield_now_resumed ==
  /\ ingest.pc = "yield_now"
  /\ ingest' = [ingest EXCEPT !.pc = "run_ingestion", !.susp = @ + 1,
                              !.via = "yield_now"]
  /\ UNCHANGED notIngest

\* The network closes one more ledger.
ledger_closes ==
  /\ ingest.head < MaxLedger
  /\ ingest' = [ingest EXCEPT !.head = @ + 1]
  /\ UNCHANGED notIngest

InitIngest ==
  /\ redis_connection \in BOOLEAN
  /\ store = [k \in Keys |-> Absent]
  /\ hits = 0 /\ misses = 0 /\ invalidations = 0
  /\ task = [p \in Procs |-> Idle]
  /\ nOps = 0 /\ nGets = 0 /\ nResets = 0
  /\ written = [k \in Keys |-> NoValue]
  /\ seen = [p \in Procs |-> {}]
  /\ fetch = [p \in Procs |-> FetchIdle]
  /\ keylog = [k \in Keys |-> NoLog]
  /\ ingest = IngestStart
  /\ resync = ResyncStart
  /\ limiter = LimiterStart
  /\ boot = BootStart /\ lock = LockStart
  /\ request = RequestStart /\ calc = CalcStart

NextIngest ==
  \/ run_ingestion
  \/ sleep_elapsed
  \/ yield_now_resumed
  \/ ledger_closes

SpecIngest == InitIngest /\ [][NextIngest]_vars

\* The runtime keeps scheduling the task and its timers fire.
SpecIngestFair ==
  /\ InitIngest /\ [][NextIngest]_vars
  /\ WF_vars(run_ingestion) /\ WF_vars(sleep_elapsed) /\ WF_vars(yield_now_resumed)

\* C13: when run_ingestion returns a count of 0 the cursor stays where it was
\* and the loop sleeps 5 seconds before its next call; the cursor never passes
\* the source's head (an always-empty source leaves it unchanged) and every
\* call after an empty batch comes after a sleep.
C13_EmptyBatchSleepsFiveSeconds ==
  /\ (ingest.result = "Ok" /\ ingest.count = 0) =>
       /\ ingest.cursor = ingest.from
       /\ \/ ingest.pc = "sleep" /\ ingest.secs = 5
          \/ ingest.pc = "run_ingestion" /\ ingest.susp = 1 /\ ingest.via = "sleep_5s"
  /\ ingest.cursor <= ingest.head
  /\ ingest.head = 0 => ingest.cursor = 0

\* The source is empty, run_ingestion has returned 0 and the loop has slept
\* its 5 seconds.
C13_Witness ==
  /\ ingest.head = 0 /\ ingest.result = "Ok" /\ ingest.count = 0
  /\ ingest.pc = "run_ingestion" /\ ingest.via = "sleep_5s"

\* C14: when run_ingestion(5) returns a count > 0 the cursor has advanced by
\* that count, which is at most 5, and the loop yields without a timed sleep
\* before its next call; between two consecutive calls there is exactly one
\* suspension (yield, 5 s sleep or 10 s sleep): every call but the first comes
\* after one, and a suspended loop has not suspended before since its call.
C14_NonEmptyBatchYieldsOnce ==
  /\ (ingest.result = "Ok" /\ ingest.count > 0) =>
       /\ ingest.cursor = ingest.from + ingest.count
       /\ ingest.count <= BatchSize
       /\ \/ ingest.pc = "yield_now"
          \/ ingest.pc = "run_ingestion" /\ ingest.via = "yield_now"
  /\ (ingest.pc = "run_ingestion" /\ ingest.result # "-") => ingest.susp = 1
  /\ ingest.pc # "run_ingestion" => ingest.susp = 0
  /\ ingest.via \in {"-", "yield_now", "sleep_5s", "sleep_10s"}

\* A full batch of 5 was ingested, the loop yielded, and more ledgers wait.
C14_Witness ==
  /\ ingest.result = "Ok" /\ ingest.count = BatchSize
  /\ ingest.pc = "run_ingestion" /\ ingest.via = "yield_now"
  /\ ingest.cursor < ingest.head

\* C15: when run_ingestion returns an error the cursor stays where it was and
\* the loop sleeps 10 seconds before calling again from that cursor; the loop
\* never exits, and after every error run_ingestion is called again.
C15_ErrorBacksOffAndRetries ==
  /\ [](ingest.result = "Err" =>
          /\ ingest.cursor = ingest.from
          /\ \/ ingest.pc = "sleep" /\ ingest.secs = 10
             \/ ingest.pc = "run_ingestion" /\ ingest.susp = 1
                /\ ingest.via = "sleep_10s")
  /\ [](ingest.pc \in {"run_ingestion", "sleep", "yield_now"})
  /\ \A b \in BOOLEAN :
       (ingest.result = "Err" /\ ingest.epoch = b) ~> (ingest.epoch # b)

\* Applying a batch failed part-way, the loop has slept its 10 seconds and is
\* about to fetch from the same cursor.
C15_Witness ==
  /\ ingest.result = "Err" /\ ingest.applied > ingest.cursor
  /\ ingest.pc = "run_ingestion" /\ ingest.via = "sleep_10s"

\* C16: the cursor never decreases, and every ledger up to the cursor has been
\* applied (the scheduler records no gaps, so none may exist).
C16_CursorMonotoneNoGap ==
  /\ [][ingest'.cursor >= ingest.cursor]_vars
  /\ [](ingest.cursor <= ingest.applied /\ ingest.applied <= ingest.head)

\* The cursor has moved over two batches with a failed iteration in between.
C16_Witness ==
  /\ ingest.cursor > BatchSize /\ ingest.result = "Err"
  /\ ingest.from = ingest.cursor

\* ===================================================== metrics resync (periodic)
\* The task main spawns: every 300 s, sync_all_metrics; on success the three
\* invalidate_* calls of the invalidation service, each a delete_pattern of the
\* cache manager; on failure a log line only.  Request handlers keep writing
\* aggregates to the cache meanwhile, and time passes at the store.

\* Resync cycles started over a run.
MaxCycles == 2

dashboard_pattern == <<"dashboard", "*">>
dashboard_stats == <<"dashboard", "stats">>
metrics_overview == <<"metrics", "overview">>
\* The cached aggregates: one key of each namespace.
ResyncKeys == {<<"anchor", "1">>, <<"corridor", "1">>, dashboard_stats, metrics_overview}

\* The invalidate_* calls in the order main makes them, and the glob each
\* passes to delete_pattern.
Domains == <<"anchors", "corridors", "metrics">>
DomainGlob(d) ==
  CASE Domains[d] = "anchors" -> anchor_pattern
    [] Domains[d] = "corridors" -> corridor_pattern
    [] Domains[d] = "metrics" -> dashboard_pattern

\* Where the loop goes after sync_all_metrics: the first invalidate call on
\* success, the next tick on failure.
AfterSyncAlwaysInvalidates(ok) == [pc |-> "KEYS", dom |-> 1]
AfterSyncStopsOnError(ok) ==
  IF ok THEN [pc |-> "KEYS", dom |-> 1] ELSE [pc |-> "exit", dom |-> 0]
AfterSync(ok) ==
  IF ok THEN [pc |-> "KEYS", dom |-> 1] ELSE [pc |-> "tick", dom |-> 0]

\* Where the loop goes after the invalidate call of domain d has returned,
\* whatever it returned: the next invalidate call, then the next tick.
AfterInvalidateSkipsMetrics(d) ==
  IF d < 2 THEN [pc |-> "KEYS", dom |-> d + 1] ELSE [pc |-> "tick", dom |-> 0]
AfterInvalidate(d) ==
  IF d < Len(Domains) THEN [pc |-> "KEYS", dom |-> d + 1]
  ELSE [pc |-> "tick", dom |-> 0]

\* Variables the resync task and the handlers' writes leave alone.
notResync ==
  <<redis_connection, task, nGets, nResets, written, seen, fetch, ingest, limiter,
    extra>>

\* interval.tick().await returns: a cycle starts.
interval_tick ==
  /\ resync.pc = "tick" /\ resync.cycles < MaxCycles
  /\ resync' = [ResyncStart EXCEPT
                  !.pc = "sync_all_metrics",
                  !.old = {k \in DOMAIN store : store[k].present},
                  !.allok = redis_connection,
                  !.cycles = resync.cycles + 1]
  /\ NoCount
  /\ UNCHANGED <<store, keylog, nOps>>
  /\ UNCHANGED notResync

\* sync_all_metrics().await returns Ok or Err.
sync_all_metrics ==
  /\ resync.pc = "sync_all_metrics"
  /\ \E ok \in BOOLEAN :
       resync' = [resync EXCEPT !.pc = AfterSync(ok).pc, !.dom = AfterSync(ok).dom,
                                !.synced = IF ok THEN "Ok" ELSE "Err"]
  /\ NoCount
  /\ UNCHANGED <<store, keylog, nOps>>
  /\ UNCHANGED notResync

\* invalidate_<domain>: delete_pattern with the domain's glob, up to the reply
\* of KEYS; with nothing to delete the call returns.
invalidate_KEYS ==
  /\ resync.pc = "KEYS"
  /\ \E q \in DeletePatternOutcomes(DomainGlob(resync.dom)) :
       LET ks == IF q.kind = "keys" THEN KEYS(DomainGlob(resync.dom)) ELSE {}
           to == IF ks = {} THEN AfterInvalidate(resync.dom)
                 ELSE [pc |-> "DEL", dom |-> resync.dom]
       IN resync' = [resync EXCEPT !.pc = to.pc, !.dom = to.dom, !.todo = ks,
                                   !.calls = Append(@, Domains[resync.dom]),
                                   !.allok = @ /\ q.kind = "keys"]
  /\ NoCount
  /\ UNCHANGED <<store, keylog, nOps>>
  /\ UNCHANGED notResync

\* delete_pattern, loop body: DEL of the next enumerated key.
invalidate_DEL ==
  /\ resync.pc = "DEL"
  /\ \E k \in resync.todo : \E q \in DelReplies(k) :
       /\ store' = IF q.kind = "ok" THEN [store EXCEPT ![k] = Absent] ELSE store
       /\ resync' = [resync EXCEPT
                       !.pc = "fetch_add", !.q = Kind(q), !.todo = @ \ {k},
                       !.allok = @ /\ q.kind = "ok",
                       !.removed = IF q.kind = "ok" /\ q.n = 1 THEN @ \cup {k} ELSE @]
  /\ NoCount
  /\ UNCHANGED <<keylog, nOps>>
  /\ UNCHANGED notResync

\* delete_pattern, loop body: the fetch_add after the DEL; after the last key
\* the call returns.
invalidate_fetch_add ==
  /\ resync.pc = "fetch_add"
  /\ fetch_add(DeletePatternCounter(resync.q))
  /\ LET to == IF resync.todo = {} THEN AfterInvalidate(resync.dom)
               ELSE [pc |-> "DEL", dom |-> resync.dom]
     IN resync' = [resync EXCEPT !.pc = to.pc, !.dom = to.dom, !.q = NoReply,
                                 !.counted = @ + (invalidations' - invalidations)]
  /\ UNCHANGED <<store, keylog, nOps>>
  /\ UNCHANGED notResync

\* A request handler caches an aggregate: set(key, value, get_ttl(class)).
handler_set(k) ==
  /\ nOps < MaxOps
  /\ LET v == [ty |-> "A", n |-> 1]
         ttl == get_ttl(k[1])
     IN \E q \in SetOutcomes(v, ttl) :
          IF q.kind = "ok"
          THEN /\ store' = [store EXCEPT ![k] = SetexEntry(@, v, ttl)]
               /\ keylog' = [keylog EXCEPT ![k] = [@ EXCEPT !.ttl0 = ttl, !.age = 0]]
               /\ resync' = [resync EXCEPT !.old = @ \ {k}]
          ELSE UNCHANGED <<store, keylog, resync>>
  /\ nOps' = nOps + 1
  /\ NoCount
  /\ UNCHANGED notResync

InitResync ==
  /\ redis_connection \in BOOLEAN
  /\ store = [k \in ResyncKeys |-> Absent]
  /\ hits = 0 /\ misses = 0 /\ invalidations = 0
  /\ task = [p \in Procs |-> Idle]
  /\ nOps = 0 /\ nGets = 0 /\ nResets = 0
  /\ written = [k \in Keys |-> NoValue]
  /\ seen = [p \in Procs |-> {}]
  /\ fetch = [p \in Procs |-> FetchIdle]
  /\ keylog = [k \in ResyncKeys |-> NoLog]
  /\ ingest = IngestStart
  /\ resync = ResyncStart
  /\ limiter = LimiterStart
  /\ boot = BootStart /\ lock = LockStart
  /\ request = RequestStart /\ calc = CalcStart

NextResync ==
  \/ interval_tick
  \/ sync_all_metrics
  \/ invalidate_KEYS
  \/ invalidate_DEL
  \/ invalidate_fetch_add
  \/ \E k \in ResyncKeys : handler_set(k)
  \/ Elapse

SpecResync == InitResync /\ [][NextResync]_vars

\* A key of one of the namespaces the three domains invalidate.
Invalidated(k) == \E d \in 1..Len(Domains) : GlobMatch(DomainGlob(d), k)

C18_FailedCycleInvalidatesNothing ==
  /\ [](resync.synced = "Err" =>
          /\ resync.pc = "tick"
          /\ resync.calls = <<>> /\ resync.removed = {} /\ resync.counted = 0
          /\ \A k \in resync.old :
               store[k].present \/ keylog[k].age >= keylog[k].ttl0)
  /\ [][(resync.pc = "sync_all_metrics" /\ resync'.synced = "Err") =>
          (store' = store /\ invalidations' = invalidations)]_vars

\* A cycle has failed with aggregates cached before it, and one of them is
\* still stored while another has expired.
C18_Witness ==
  /\ resync.pc = "tick" /\ resync.synced = "Err"
  /\ \E k \in resync.old : store[k].present
  /\ \E k \in resync.old : ~store[k].present

\* C19: an entry is in the store only while less than the ttl of its last
\* acknowledged set has passed since that set: from then on every get of the
\* key misses, whether or not any invalidation has run.
C19_EntryGoneWhenTtlOver ==
  \A k \in DOMAIN store :
    /\ store[k].present => keylog[k].age < keylog[k].ttl0
    /\ (keylog[k].ttl0 > 0 /\ keylog[k].age >= keylog[k].ttl0) =>
         \A q \in GetReplies(k) : q.kind # "some"

\* Every cycle so far failed and nothing was ever invalidated; the anchor
\* entry, written with ttl 600, outlived one clock step, and the corridor entry
\* is gone with its ttl.
C19_Witness ==
  /\ resync.synced = "Err" /\ invalidations = 0 /\ redis_connection
  /\ store[<<"anchor", "1">>].present /\ keylog[<<"anchor", "1">>].age > 0
  /\ keylog[<<"corridor", "1">>].ttl0 > 0 /\ ~store[<<"corridor", "1">>].present

\* ================================================ admission (rate limiting)
\* main registers a RateLimitConfig per endpoint and layers
\* rate_limit_middleware in front of the routes.  An evaluation allows a
\* whitelisted address outright; otherwise it increments the window counter of
\* (endpoint, address) and rejects when the incremented count exceeds the
\* limit.  The counter is the shared store's, or the in-process one when the
\* store does not answer.

\* Requests evaluated beyond the limit, per counter and window.
MaxOver == 2

\* The configs main registers.
register_endpoint_all_1000(endpoint) ==
  CASE endpoint = "/health" ->
         [requests_per_minute |-> 1000, whitelist_ips |-> {"127.0.0.1"}]
    [] OTHER -> [requests_per_minute |-> 1000, whitelist_ips |-> {}]
register_endpoint_no_whitelist(endpoint) ==
  CASE endpoint = "/health" -> [requests_per_minute |-> 1000, whitelist_ips |-> {}]
    [] OTHER -> [requests_per_minute |-> 100, whitelist_ips |-> {}]
register_endpoint(endpoint) ==
  CASE endpoint = "/health" ->
         [requests_per_minute |-> 1000, whitelist_ips |-> {"127.0.0.1"}]
    [] endpoint \in {"/api/anchors", "/api/corridors", "/api/rpc/payments",
                     "/api/rpc/trades"} ->
         [requests_per_minute |-> 100, whitelist_ips |-> {}]

Whitelisted(t) == t[2] \in register_endpoint(t[1]).whitelist_ips

\* The verdict on a post-increment count.
Verdict(post, limit) == IF post > limit THEN "reject" ELSE "allow"

\* Variables the rate limiter leaves alone.
notLimiter ==
  <<redis_connection, store, hits, misses, invalidations, task, nOps, nGets,
    nResets, written, seen, fetch, keylog, ingest, resync, extra>>

\* One request is evaluated.
rate_limit_middleware(t) ==
  /\ IF Whitelisted(t)
     THEN limiter' = [limiter EXCEPT
                        !.last = [to |-> t, backend |-> "-", post |-> 0,
                                  verdict |-> "allow"]]
     ELSE \E b \in Backends :
            LET limit == register_endpoint(t[1]).requests_per_minute
                post == limiter.count[b][t] + 1
                v == Verdict(post, limit)
            IN /\ limiter.count[b][t] < limit + MaxOver
               /\ limiter' = [limiter EXCEPT
                    !.count[b][t] = post,
                    !.allowed[b][t] = IF v = "allow" THEN @ + 1 ELSE @,
                    !.rejected[b][t] = IF v = "reject" THEN @ + 1 ELSE @,
                    !.last = [to |-> t, backend |-> b, post |-> post, verdict |-> v]]
  /\ limiter' # limiter
  /\ UNCHANGED notLimiter

\* The window of (endpoint, address) is over: its counters start again.
window_elapsed(t) ==
  /\ \E b \in Backends : limiter.count[b][t] > 0
  /\ limiter' = [limiter EXCEPT
                   !.count = [b \in Backends |-> [@[b] EXCEPT ![t] = 0]],
                   !.allowed = [b \in Backends |-> [@[b] EXCEPT ![t] = 0]],
                   !.rejected = [b \in Backends |-> [@[b] EXCEPT ![t] = 0]],
                   !.last = NoRequest]
  /\ UNCHANGED notLimiter

InitLimiter ==
  /\ redis_connection \in BOOLEAN
  /\ store = [k \in Keys |-> Absent]
  /\ hits = 0 /\ misses = 0 /\ invalidations = 0
  /\ task = [p \in Procs |-> Idle]
  /\ nOps = 0 /\ nGets = 0 /\ nResets = 0
  /\ written = [k \in Keys |-> NoValue]
  /\ seen = [p \in Procs |-> {}]
  /\ fetch = [p \in Procs |-> FetchIdle]
  /\ keylog = [k \in Keys |-> NoLog]
  /\ ingest = IngestStart
  /\ resync = ResyncStart
  /\ limiter = LimiterStart
  /\ boot = BootStart /\ lock = LockStart
  /\ request = RequestStart /\ calc = CalcStart

NextLimiter ==
  \/ \E t \in Traffic : rate_limit_middleware(t)
  \/ \E t \in Traffic : window_elapsed(t)

SpecLimiter == InitLimiter /\ [][NextLimiter]_vars

Sum(f) == f["shared"] + f["local"]
Metered == {t \in Traffic : ~Whitelisted(t)}

\* C20 as stated: of the requests of a metered client to /api/anchors evaluated
\* in one window, the first 100 are allowed and every later one is rejected.
C20_FirstNAllowedRestRejected ==
  \A t \in Metered :
    t[1] = "/api/anchors" =>
      Sum([b \in Backends |-> limiter.allowed[b][t]])
        = Min(Sum([b \in Backends |-> limiter.count[b][t]]), 100)

\* C20, amended: of the requests of a metered client to /api/anchors counted by
\* one counter (the shared store's or the in-process one) in one window, the
\* first 100 are allowed and every later one is rejected; every evaluation,
\* rejected ones included, increments its counter exactly once.
C20_FirstNPerCounterAllowedRestRejected ==
  \A t \in Metered : \A b \in Backends :
    /\ limiter.count[b][t] = limiter.allowed[b][t] + limiter.rejected[b][t]
    /\ t[1] = "/api/anchors" =>
         /\ limiter.allowed[b][t] = Min(limiter.count[b][t], 100)
         /\ (limiter.last.to = t /\ limiter.last.backend = b) =>
              /\ limiter.last.post = limiter.count[b][t]
              /\ limiter.last.verdict = "allow" <=> limiter.last.post <= 100

\* The 101st request counted by the shared store in a window was rejected
\* after 100 were allowed, and the counter stands at 101.
C20_Witness ==
  LET t == <<"/api/anchors", "10.0.0.1">> IN
  /\ limiter.last = [to |-> t, backend |-> "shared", post |-> 101, verdict |-> "reject"]
  /\ limiter.allowed["shared"][t] = 100 /\ limiter.rejected["shared"][t] = 1
  /\ limiter.count["shared"][t] = 101

\* C21: a request to /health from 127.0.0.1, which is on that endpoint's
\* whitelist, is always allowed, whatever the counters say, and it increments
\* no counter: the counters of a whitelisted (endpoint, address) stay at zero.
C21_WhitelistedAlwaysAllowedNoQuota ==
  LET t == <<"/health", "127.0.0.1">> IN
  /\ \A b \in Backends :
       /\ limiter.count[b][t] = 0
       /\ limiter.allowed[b][t] = 0 /\ limiter.rejected[b][t] = 0
  /\ limiter.last.to = t =>
       /\ limiter.last.verdict = "allow"
       /\ limiter.last.backend = "-" /\ limiter.last.post = 0

\* The whitelisted address was allowed on /health while the metered client of
\* /api/anchors was past its limit on both counters.
C21_Witness ==
  /\ limiter.last.to = <<"/health", "127.0.0.1">>
  /\ limiter.last.verdict = "allow"
  /\ \A b \in Backends : limiter.rejected[b][<<"/api/anchors", "10.0.0.1">>] > 0

\* ================================================================ startup (main)
\* main spawns the resync task and the ingestion task, runs the initial
\* sync_all_metrics, constructs the rate limiter (a second RateLimiter::new()
\* when the first returns Err, a panic when that fails too), registers the
\* endpoints and serves.  The resync task runs from the moment it is spawned;
\* its interval's first tick completes at once.

\* What RateLimiter::new() can return: a limiter on the shared store when the
\* store is reachable, a limiter on the in-process map when it is not, or an
\* error that has nothing to do with the store.
RateLimiter_new_fails_without_store(store_up) ==
  IF store_up
  THEN {[ok |-> TRUE, limiter |-> "shared", cause |-> "-"],
        [ok |-> FALSE, limiter |-> "-", cause |-> "other"]}
  ELSE {[ok |-> FALSE, limiter |-> "-", cause |-> "store"]}
RateLimiter_new(store_up) ==
  {[ok |-> TRUE, limiter |-> IF store_up THEN "shared" ELSE "local", cause |-> "-"],
   [ok |-> FALSE, limiter |-> "-", cause |-> "other"]}

\* Where main goes on the result of a RateLimiter::new() call: on Ok to the
\* registrations; on the first Err to a second call, on the second Err to the
\* panic of unwrap_or_else.
AfterNew(r, attempt) ==
  IF r.ok THEN "register_endpoint"
  ELSE IF attempt = 1 THEN "RateLimiter_new_again" ELSE "panic"

\* Variables main leaves alone.
notBoot ==
  <<redis_connection, store, hits, misses, invalidations, task, nOps, nGets,
    nResets, written, seen, fetch, keylog, ingest, resync, limiter, lock, request,
    calc>>

\* tokio::spawn of the resync task.
spawn_resync ==
  /\ boot.pc = "spawn_resync"
  /\ boot' = [boot EXCEPT !.pc = "spawn_ingestion", !.resync_spawned = TRUE]
  /\ UNCHANGED notBoot

\* tokio::spawn of the ledger ingestion task.
spawn_ingestion ==
  /\ boot.pc = "spawn_ingestion"
  /\ boot' = [boot EXCEPT !.pc = "initial_sync_call", !.ingest_spawned = TRUE]
  /\ UNCHANGED notBoot

\* main calls ingestion_service.sync_all_metrics(): the initial sync begins.
initial_sync_call ==
  /\ boot.pc = "initial_sync_call"
  /\ boot' = [boot EXCEPT !.pc = "initial_sync"]
  /\ UNCHANGED notBoot

\* The initial sync returns; its result is dropped (let _ =).
initial_sync_return ==
  /\ boot.pc = "initial_sync"
  /\ boot' = [boot EXCEPT !.pc = "RateLimiter_new"]
  /\ UNCHANGED notBoot

\* RateLimiter::new().await and the match on its result; in the Err arm the
\* second RateLimiter::new().await with unwrap_or_else(panic).
rate_limiter_init ==
  /\ boot.pc \in {"RateLimiter_new", "RateLimiter_new_again"}
  /\ \E r \in RateLimiter_new(boot.store_up) :
       boot' = [boot EXCEPT
                  !.pc = AfterNew(r, Len(boot.attempts) + 1),
                  !.attempts = Append(@, IF r.ok THEN "Ok" ELSE r.cause),
                  !.limiter = r.limiter]
  /\ UNCHANGED notBoot

\* The register_endpoint calls, then axum::serve.
register_and_serve ==
  /\ boot.pc = "register_endpoint"
  /\ boot' = [boot EXCEPT !.pc = "serve"]
  /\ UNCHANGED notBoot

\* The shared store of the rate limiter goes down or comes back.
counter_store_flips ==
  /\ boot.pc \notin {"serve", "panic"}
  /\ boot' = [boot EXCEPT !.store_up = ~@]
  /\ UNCHANGED notBoot

InitBoot ==
  /\ redis_connection \in BOOLEAN
  /\ store = [k \in ResyncKeys |-> Absent]
  /\ hits = 0 /\ misses = 0 /\ invalidations = 0
  /\ task = [p \in Procs |-> Idle]
  /\ nOps = 0 /\ nGets = 0 /\ nResets = 0
  /\ written = [k \in Keys |-> NoValue]
  /\ seen = [p \in Procs |-> {}]
  /\ fetch = [p \in Procs |-> FetchIdle]
  /\ keylog = [k \in ResyncKeys |-> NoLog]
  /\ ingest = IngestStart
  /\ resync = ResyncStart
  /\ limiter = LimiterStart
  /\ \E up \in BOOLEAN : boot = [BootStart EXCEPT !.store_up = up]
  /\ lock = LockStart
  /\ request = RequestStart /\ calc = CalcStart

\* main's statements, and the steps of the resync task once it is spawned.
NextBoot ==
  \/ spawn_resync
  \/ spawn_ingestion
  \/ initial_sync_call
  \/ initial_sync_return
  \/ rate_limiter_init
  \/ register_and_serve
  \/ counter_store_flips
  \/ boot.resync_spawned /\ boot.pc # "panic" /\ interval_tick
  \/ boot.resync_spawned /\ boot.pc # "panic" /\ sync_all_metrics
  \/ boot.resync_spawned /\ boot.pc # "panic" /\ invalidate_KEYS

SpecBoot == InitBoot /\ [][NextBoot]_vars

C29_AtMostOneSyncInProgress ==
  ~(boot.pc = "initial_sync" /\ resync.pc = "sync_all_metrics")

\* ================================================================ routers (main)
\* A router is built by a sequence of builder calls.  Router::layer wraps the
\* routes added before it, and a later layer is outside an earlier one, so a
\* request passes the layers added after its route, last added first, and
\* then the route's handler.

Route(path) == [op |-> "route", arg |-> path]
Layer(l) == [op |-> "layer", arg |-> l]

\* A build in which the layers are added before the routes: they wrap nothing.
anchor_routes_layered_first ==
  << Layer("rate_limit"), Layer("cors"),
     Route("/health"), Route("/api/anchors"), Route("/api/anchors/:id"),
     Route("/api/anchors/account/:stellar_account"),
     Route("/api/anchors/:id/metrics"), Route("/api/anchors/:id/assets"),
     Route("/api/corridors"),
     Route("/api/corridors/:id/metrics-from-transactions"),
     Route("/api/corridors/:corridor_key"), Route("/api/ingestion/status") >>
anchor_routes ==
  << Route("/health"), Route("/api/anchors"), Route("/api/anchors/:id"),
     Route("/api/anchors/account/:stellar_account"),
     Route("/api/anchors/:id/metrics"), Route("/api/anchors/:id/assets"),
     Route("/api/corridors"),
     Route("/api/corridors/:id/metrics-from-transactions"),
     Route("/api/corridors/:corridor_key"), Route("/api/ingestion/status"),
     Layer("rate_limit"), Layer("cors") >>

rpc_routes ==
  << Route("/api/rpc/health"), Route("/api/rpc/ledger/latest"),
     Route("/api/rpc/payments"), Route("/api/rpc/payments/account/:account_id"),
     Route("/api/rpc/trades"), Route("/api/rpc/orderbook"),
     Layer("rate_limit"), Layer("cors") >>

\* The routes a build adds.
RoutesOf(build) ==
  {build[i].arg : i \in {j \in 1..Len(build) : build[j].op = "route"}}

\* The services of a route of a build, outermost first: the layers added
\* after the route, last added first, then the handler.
RECURSIVE Wrap(_, _, _)
Wrap(build, i, inner) ==
  IF i > Len(build) THEN inner
  ELSE Wrap(build, i + 1,
            IF build[i].op = "layer" THEN <<build[i].arg>> \o inner ELSE inner)
Services(build, path) ==
  LET at == CHOOSE i \in 1..Len(build) : build[i] = Route(path)
  IN  Wrap(build, at + 1, <<"handler">>)

\* Router::new().merge(anchor_routes).merge(rpc_routes): each route keeps the
\* services of the router it was built in.
app(path) ==
  IF path \in RoutesOf(anchor_routes) THEN Services(anchor_routes, path)
  ELSE Services(rpc_routes, path)
Routes == RoutesOf(anchor_routes) \cup RoutesOf(rpc_routes)
\* The app as a table: the services of each of its routes.
service == [path \in Routes |-> app(path)]

\* Variables the routers leave alone.
notRoutes ==
  <<redis_connection, store, hits, misses, invalidations, task, nOps, nGets,
    nResets, written, seen, fetch, keylog, ingest, resync, limiter, boot, lock,
    calc>>

\* A request of client c for a route enters the app.
request_arrives(c, path) ==
  /\ request[c].todo = <<>>
  /\ request' = [request EXCEPT ![c] = [path |-> path, todo |-> service[path], log |-> <<>>]]
  /\ UNCHANGED notRoutes

\* The CORS layer: it answers a preflight itself, and passes any other
\* request inwards.
cors(c) ==
  /\ request[c].todo # <<>> /\ Head(request[c].todo) = "cors"
  /\ \E preflight \in BOOLEAN :
       request' = [request EXCEPT
                     ![c].log = Append(@, IF preflight THEN "cors:preflight" ELSE "cors"),
                     ![c].todo = IF preflight THEN <<>> ELSE Tail(@)]
  /\ UNCHANGED notRoutes

\* The rate-limit middleware: it evaluates admission, and runs the rest of
\* the stack only when the request is allowed; a rejected request is answered
\* by the middleware.
from_fn_rate_limit_middleware(c) ==
  /\ request[c].todo # <<>> /\ Head(request[c].todo) = "rate_limit"
  /\ \E allowed \in BOOLEAN :
       request' = [request EXCEPT
                     ![c].log = Append(@, IF allowed THEN "rate_limit:allow"
                                                     ELSE "rate_limit:reject"),
                     ![c].todo = IF allowed THEN Tail(@) ELSE <<>>]
  /\ UNCHANGED notRoutes

\* The route's handler runs and answers.
handler(c) ==
  /\ request[c].todo # <<>> /\ Head(request[c].todo) = "handler"
  /\ request' = [request EXCEPT ![c].log = Append(@, "handler"), ![c].todo = <<>>]
  /\ UNCHANGED notRoutes

InitRoutes ==
  /\ redis_connection \in BOOLEAN
  /\ store = [k \in ResyncKeys |-> Absent]
  /\ hits = 0 /\ misses = 0 /\ invalidations = 0
  /\ task = [p \in Procs |-> Idle]
  /\ nOps = 0 /\ nGets = 0 /\ nResets = 0
  /\ written = [k \in Keys |-> NoValue]
  /\ seen = [p \in Procs |-> {}]
  /\ fetch = [p \in Procs |-> FetchIdle]
  /\ keylog = [k \in ResyncKeys |-> NoLog]
  /\ ingest = IngestStart
  /\ resync = ResyncStart
  /\ limiter = LimiterStart
  /\ boot = BootStart
  /\ lock = LockStart
  /\ request = RequestStart /\ calc = CalcStart

NextRoutes ==
  \E c \in Procs :
    \/ \E path \in Routes : request_arrives(c, path)
    \/ cors(c)
    \/ from_fn_rate_limit_middleware(c)
    \/ handler(c)

SpecRoutes == InitRoutes /\ [][NextRoutes]_vars

\* Position of the first occurrence of e in log, 0 when there is none.
IndexOf(log, e) ==
  IF \E i \in 1..Len(log) : log[i] = e
  THEN CHOOSE i \in 1..Len(log) : log[i] = e /\ \A j \in 1..(i - 1) : log[j] # e
  ELSE 0

\* C23: every route of the anchor router and of the RPC router is behind the
\* rate-limit middleware; within a request a handler runs only after the
\* middleware has allowed that request, and a request the middleware rejected
\* never reaches a handler.
C23_AdmissionStrictlyBeforeHandler ==
  /\ \A path \in Routes :
       \E i \in 1..Len(service[path]) :
         /\ service[path][i] = "rate_limit"
         /\ service[path][Len(service[path])] = "handler"
         /\ i < Len(service[path])
  /\ \A c \in Procs :
       LET log == request[c].log IN
       /\ IndexOf(log, "handler") > 0 =>
            /\ IndexOf(log, "rate_limit:allow") > 0
            /\ IndexOf(log, "rate_limit:allow") < IndexOf(log, "handler")
       /\ IndexOf(log, "rate_limit:reject") > 0 =>
            /\ IndexOf(log, "handler") = 0
            /\ request[c].todo = <<>>
       /\ (request[c].todo # <<>> /\ Head(request[c].todo) = "handler") =>
            IndexOf(log, "rate_limit:allow") > 0

\* One client's request of an RPC route was allowed and handled, another's
\* request of an anchor route was rejected and answered without a handler.
C23_Witness ==
  \E c1, c2 \in Procs :
    /\ request[c1].path = "/api/rpc/payments"
    /\ request[c1].log = <<"cors", "rate_limit:allow", "handler">>
    /\ request[c2].path = "/api/anchors"
    /\ request[c2].log = <<"cors", "rate_limit:reject">>
    /\ request[c2].todo = <<>>

\* ================================================================ cache keys (mod keys)
\* Strings are sequences of characters here, so that a key is what format!
\* writes and a glob is matched character by character.

\* Largest limit/offset passed to a list builder.
MaxInt == 50
\* The i64 arguments: a negative one, zero, and page sizes and offsets.
Ints == {-1, 0, 1, 10, MaxInt}
\* The &str arguments: empty, an id, an account, a filter, a corridor key.
Strs ==
  { <<>>, <<"1", "2", "3">>, <<"G", "A", "1", "2", "3">>, <<"x">>,
    <<"U", "S", "D", "C", ":", "G", "A", "-", ">", "X", "L", "M", ":", "G", "B">> }

\* Display of an i64: a minus sign for a negative number, then the decimal
\* digits without leading zeros.
Digit(d) == <<"0", "1", "2", "3", "4", "5", "6", "7", "8", "9">>[d + 1]
RECURSIVE Digits(_)
Digits(n) == IF n < 10 THEN <<Digit(n)>> ELSE Digits(n \div 10) \o <<Digit(n % 10)>>
Dec(n) == IF n < 0 THEN <<"-">> \o Digits(0 - n) ELSE Digits(n)

\* The builders of mod keys.
keys_anchor_list_offset_first(limit, offset) ==
  <<"a", "n", "c", "h", "o", "r", ":", "l", "i", "s", "t", ":">> \o Dec(offset) \o <<":">> \o Dec(limit)
keys_anchor_list(limit, offset) ==
  <<"a", "n", "c", "h", "o", "r", ":", "l", "i", "s", "t", ":">> \o Dec(limit) \o <<":">> \o Dec(offset)
keys_anchor_detail(id) == <<"a", "n", "c", "h", "o", "r", ":", "d", "e", "t", "a", "i", "l", ":">> \o id
keys_anchor_by_account(account) == <<"a", "n", "c", "h", "o", "r", ":", "a", "c", "c", "o", "u", "n", "t", ":">> \o account
keys_anchor_assets(anchor_id) == <<"a", "n", "c", "h", "o", "r", ":", "a", "s", "s", "e", "t", "s", ":">> \o anchor_id
keys_corridor_list(limit, offset, filters) ==
  <<"c", "o", "r", "r", "i", "d", "o", "r", ":", "l", "i", "s", "t", ":">> \o Dec(limit) \o <<":">> \o Dec(offset)
    \o <<":">> \o filters
keys_corridor_detail(corridor_key) == <<"c", "o", "r", "r", "i", "d", "o", "r", ":", "d", "e", "t", "a", "i", "l", ":">> \o corridor_key
keys_dashboard_stats == <<"d", "a", "s", "h", "b", "o", "a", "r", "d", ":", "s", "t", "a", "t", "s">>
keys_metrics_overview == <<"m", "e", "t", "r", "i", "c", "s", ":", "o", "v", "e", "r", "v", "i", "e", "w">>
keys_anchor_pattern == <<"a", "n", "c", "h", "o", "r", ":", "*">>
keys_corridor_pattern == <<"c", "o", "r", "r", "i", "d", "o", "r", ":", "*">>
keys_dashboard_pattern == <<"d", "a", "s", "h", "b", "o", "a", "r", "d", ":", "*">>

\* The store's glob match of KEYS on characters: '*' stands for any run of
\* characters, also the empty one; any other character for itself.
RECURSIVE glob_match(_, _)
glob_match(pat, str) ==
  IF pat = <<>> THEN str = <<>>
  ELSE IF Head(pat) = "*"
       THEN \/ glob_match(Tail(pat), str)
            \/ str # <<>> /\ glob_match(pat, Tail(str))
       ELSE /\ str # <<>>
            /\ Head(pat) = Head(str)
            /\ glob_match(Tail(pat), Tail(str))

\* Variables the builders leave alone.
notCalc ==
  <<redis_connection, store, hits, misses, invalidations, task, nOps, nGets,
    nResets, written, seen, fetch, keylog, ingest, resync, limiter, boot, lock,
    request>>

\* The record of one application.
Applied(fn, args, out) == [fn |-> fn, args |-> args, out |-> out]

call_anchor_list ==
  /\ \E l \in Ints, o \in Ints : calc' = Applied("anchor_list", <<l, o>>, keys_anchor_list(l, o))
  /\ UNCHANGED notCalc
call_anchor_detail ==
  /\ \E id \in Strs : calc' = Applied("anchor_detail", <<id>>, keys_anchor_detail(id))
  /\ UNCHANGED notCalc
call_anchor_by_account ==
  /\ \E a \in Strs : calc' = Applied("anchor_by_account", <<a>>, keys_anchor_by_account(a))
  /\ UNCHANGED notCalc
call_anchor_assets ==
  /\ \E id \in Strs : calc' = Applied("anchor_assets", <<id>>, keys_anchor_assets(id))
  /\ UNCHANGED notCalc
call_corridor_list ==
  /\ \E l \in Ints, o \in Ints, f \in Strs :
       calc' = Applied("corridor_list", <<l, o, f>>, keys_corridor_list(l, o, f))
  /\ UNCHANGED notCalc
call_corridor_detail ==
  /\ \E k \in Strs : calc' = Applied("corridor_detail", <<k>>, keys_corridor_detail(k))
  /\ UNCHANGED notCalc
call_dashboard_stats ==
  /\ calc' = Applied("dashboard_stats", <<>>, keys_dashboard_stats)
  /\ UNCHANGED notCalc
call_metrics_overview ==
  /\ calc' = Applied("metrics_overview", <<>>, keys_metrics_overview)
  /\ UNCHANGED notCalc

InitKeys ==
  /\ redis_connection \in BOOLEAN
  /\ store = [k \in ResyncKeys |-> Absent]
  /\ hits = 0 /\ misses = 0 /\ invalidations = 0
  /\ task = [p \in Procs |-> Idle]
  /\ nOps = 0 /\ nGets = 0 /\ nResets = 0
  /\ written = [k \in Keys |-> NoValue]
  /\ seen = [p \in Procs |-> {}]
  /\ fetch = [p \in Procs |-> FetchIdle]
  /\ keylog = [k \in ResyncKeys |-> NoLog]
  /\ ingest = IngestStart
  /\ resync = ResyncStart
  /\ limiter = LimiterStart
  /\ boot = BootStart
  /\ lock = LockStart
  /\ request = RequestStart /\ calc = CalcStart

NextKeys ==
  \/ call_anchor_list
  \/ call_anchor_detail
  \/ call_anchor_by_account
  \/ call_anchor_assets
  \/ call_corridor_list
  \/ call_corridor_detail
  \/ call_dashboard_stats
  \/ call_metrics_overview

SpecKeys == InitKeys /\ [][NextKeys]_vars

\* A string cut at its ':' characters.
RECURSIVE Split(_, _)
Split(str, cur) ==
  IF str = <<>> THEN <<cur>>
  ELSE IF Head(str) = ":" THEN <<cur>> \o Split(Tail(str), <<>>)
       ELSE Split(Tail(str), Append(cur, Head(str)))

\* The documented format of each builder's key.
Documented ==
  LET a == calc.args
      seg == Split(calc.out, <<>>)
      rest(n) == SubSeq(calc.out, n + 1, Len(calc.out))
      first(n) == SubSeq(calc.out, 1, n)
  IN CASE calc.fn = "anchor_list" ->
            seg = <<<<"a", "n", "c", "h", "o", "r">>, <<"l", "i", "s", "t">>, Dec(a[1]), Dec(a[2])>>
       [] calc.fn = "anchor_detail" ->
            first(14) = <<"a", "n", "c", "h", "o", "r", ":", "d", "e", "t", "a", "i", "l", ":">> /\ rest(14) = a[1]
       [] calc.fn = "anchor_by_account" ->
            first(15) = <<"a", "n", "c", "h", "o", "r", ":", "a", "c", "c", "o", "u", "n", "t", ":">> /\ rest(15) = a[1]
       [] calc.fn = "anchor_assets" ->
            first(14) = <<"a", "n", "c", "h", "o", "r", ":", "a", "s", "s", "e", "t", "s", ":">> /\ rest(14) = a[1]
       [] calc.fn = "corridor_list" ->
            /\ SubSeq(seg, 1, 4) = <<<<"c", "o", "r", "r", "i", "d", "o", "r">>, <<"l", "i", "s", "t">>, Dec(a[1]), Dec(a[2])>>
            /\ rest(Len(calc.out) - Len(a[3])) = a[3]
            /\ Len(calc.out) = 16 + Len(Dec(a[1])) + Len(Dec(a[2])) + Len(a[3])
       [] calc.fn = "corridor_detail" ->
            first(16) = <<"c", "o", "r", "r", "i", "d", "o", "r", ":", "d", "e", "t", "a", "i", "l", ":">> /\ rest(16) = a[1]
       [] calc.fn = "dashboard_stats" -> calc.out = <<"d", "a", "s", "h", "b", "o", "a", "r", "d", ":", "s", "t", "a", "t", "s">>
       [] calc.fn = "metrics_overview" -> calc.out = <<"m", "e", "t", "r", "i", "c", "s", ":", "o", "v", "e", "r", "v", "i", "e", "w">>
       [] OTHER -> TRUE

\* C24: each key builder returns exactly the documented format of its
\* arguments (anchor_list(50,0) is "anchor:list:50:0", corridor_list(10,0,"x")
\* is "corridor:list:10:0:x"); a builder applied twice to equal arguments
\* returns equal keys; and exchanging limit and offset changes the key of
\* anchor_list and of corridor_list whenever the two differ.
C24_KeyBuildersDeterministicOrdered ==
  /\ [](/\ Documented
        /\ (calc.fn = "anchor_list" /\ calc.args = <<50, 0>>) =>
             calc.out = <<"a", "n", "c", "h", "o", "r", ":", "l", "i", "s", "t", ":", "5", "0", ":", "0">>
        /\ (calc.fn = "corridor_list" /\ calc.args = <<10, 0, <<"x">>>>) =>
             calc.out = <<"c", "o", "r", "r", "i", "d", "o", "r", ":", "l", "i", "s", "t", ":", "1", "0", ":", "0", ":", "x">>
        /\ (calc.fn = "anchor_list" /\ calc.args[1] # calc.args[2]) =>
             calc.out # keys_anchor_list(calc.args[2], calc.args[1])
        /\ (calc.fn = "corridor_list" /\ calc.args[1] # calc.args[2]) =>
             calc.out # keys_corridor_list(calc.args[2], calc.args[1], calc.args[3]))
  /\ [][(calc'.fn = calc.fn /\ calc'.args = calc.args) => calc'.out = calc.out]_vars

\* anchor_list(50, 0) was built.
C24_Witness ==
  /\ calc.fn = "anchor_list" /\ calc.args = <<50, 0>>
  /\ calc.out = <<"a", "n", "c", "h", "o", "r", ":", "l", "i", "s", "t", ":", "5", "0", ":", "0">>

\* C28: every key a builder returns is matched by at least one of the globs
\* anchor:*, corridor:*, dashboard:*.
C28_EveryBuilderKeyMatchedBySomeGlob ==
  calc.fn # "-" =>
    \E g \in {keys_anchor_pattern, keys_corridor_pattern, keys_dashboard_pattern} :
      glob_match(g, calc.out)

\* ================================================================ parse_asset_pair (corridors)
\* Longest asset_pair drawn from the alphabet.
MaxInput == 7
\* A letter, the characters the parser looks for, and one it does not.
Alphabet == {"A", ":", "-", ">", " "}
\* The asset pairs of the module's tests, and the shortest full pairs.
TestInputs ==
  { <<"U", "S", "D", "C", ":", "i", "s", "s", "u", "e", "r", "1", "-", ">", "E", "U", "R", "C", ":", "i", "s", "s", "u", "e", "r", "2">>,
    <<"U", "S", "D", "C", ":", "i", "s", "s", "u", "e", "r", "1", " ", "-", ">", " ", "E", "U", "R", "C", ":", "i", "s", "s", "u", "e", "r", "2">>,
    <<"U", "S", "D", "C", "-", "E", "U", "R", "C">>,
    <<"U", "S", "D", "C", "-", ">", "E", "U", "R", "C", ":", "i", "s", "s", "u", "e", "r", "2">>,
    <<"A", ":", "A", "-", ">", "A", ":", "A">>, <<"A", ":", "A", " ", "-", ">", " ", "A", ":", "A">> }

\* str::replace(" ", "").
remove_spaces(str) == SelectSeq(str, LAMBDA c : c # " ")

\* str::contains("->").
contains_arrow(str) ==
  \E i \in 1..(Len(str) - 1) : str[i] = "-" /\ str[i + 1] = ">"

\* str::split("->"): cut at the matches found from the left, a match never
\* overlapping the one before.
RECURSIVE split_arrow(_, _)
split_arrow(str, cur) ==
  IF str = <<>> THEN <<cur>>
  ELSE IF Len(str) >= 2 /\ str[1] = "-" /\ str[2] = ">"
       THEN <<cur>> \o split_arrow(SubSeq(str, 3, Len(str)), <<>>)
       ELSE split_arrow(Tail(str), Append(cur, Head(str)))

\* Corridor::new(a_code, a_issuer, b_code, b_issuer).to_string_key(): the key
\* does not depend on the order of the two assets.
to_string_key(a, b) == {a, b}

BadRequest(msg) == [status |-> "BadRequest", msg |-> msg, key |-> {}]

\* parse_asset_pair without the check of the number of parts.
parse_asset_pair_first_two_parts(asset_pair) ==
  LET normalized == remove_spaces(asset_pair)
      parts == split_arrow(normalized, <<>>)
      asset_a_parts == Split(parts[1], <<>>)
      asset_b_parts == Split(parts[2], <<>>)
  IN  IF ~contains_arrow(normalized) THEN BadRequest("Invalid asset pair format")
      ELSE IF Len(asset_a_parts) # 2 \/ Len(asset_b_parts) # 2
           THEN BadRequest("Invalid asset format")
      ELSE [status |-> "Ok", msg |-> "",
            key |-> to_string_key(asset_a_parts, asset_b_parts)]
parse_asset_pair(asset_pair) ==
  LET normalized == remove_spaces(asset_pair)
      parts == split_arrow(normalized, <<>>)
      asset_a_parts == Split(parts[1], <<>>)
      asset_b_parts == Split(parts[2], <<>>)
  IN  IF ~contains_arrow(normalized) THEN BadRequest("Invalid asset pair format")
      ELSE IF Len(parts) # 2 THEN BadRequest("Invalid asset pair format")
      ELSE IF Len(asset_a_parts) # 2 \/ Len(asset_b_parts) # 2
           THEN BadRequest("Invalid asset format")
      ELSE [status |-> "Ok", msg |-> "",
            key |-> to_string_key(asset_a_parts, asset_b_parts)]

\* IntoResponse for the ApiError of corridors: the status code of each error.
StatusCode(status) ==
  CASE status = "Ok" -> 200
    [] status = "NotFound" -> 404
    [] status = "BadRequest" -> 400
    [] status = "InternalError" -> 500

\* get_corridor_by_asset_pair's first statement, parse_asset_pair(&asset_pair)?,
\* of one request.
call_parse_asset_pair ==
  /\ calc.fn = "-"
  /\ \E n \in 0..MaxInput :
       \E asset_pair \in [1..n -> Alphabet] \cup TestInputs :
         calc' = Applied("parse_asset_pair", <<asset_pair>>, parse_asset_pair(asset_pair))
  /\ UNCHANGED notCalc

InitParse ==
  /\ redis_connection \in BOOLEAN
  /\ store = [k \in ResyncKeys |-> Absent]
  /\ hits = 0 /\ misses = 0 /\ invalidations = 0
  /\ task = [p \in Procs |-> Idle]
  /\ nOps = 0 /\ nGets = 0 /\ nResets = 0
  /\ written = [k \in Keys |-> NoValue]
  /\ seen = [p \in Procs |-> {}]
  /\ fetch = [p \in Procs |-> FetchIdle]
  /\ keylog = [k \in ResyncKeys |-> NoLog]
  /\ ingest = IngestStart
  /\ resync = ResyncStart
  /\ limiter = LimiterStart
  /\ boot = BootStart
  /\ lock = LockStart
  /\ request = RequestStart /\ calc = CalcStart

NextParse == call_parse_asset_pair

SpecParse == InitParse /\ [][NextParse]_vars

\* Occurrences of the character c in str.
Count(str, c) == Cardinality({i \in 1..Len(str) : str[i] = c})

\* The input, spaces removed, is one CODE:ISSUER, an arrow, one CODE:ISSUER:
\* exactly one "->", and exactly one ':' on each side of it.
WellFormed(asset_pair) ==
  LET str == SelectSeq(asset_pair, LAMBDA c : c # " ")
      arrows == {i \in 1..(Len(str) - 1) : str[i] = "-" /\ str[i + 1] = ">"}
  IN  /\ Cardinality(arrows) = 1
      /\ LET at == CHOOSE i \in arrows : TRUE
         IN  /\ Count(SubSeq(str, 1, at - 1), ":") = 1
             /\ Count(SubSeq(str, at + 2, Len(str)), ":") = 1

\* C26: parse_asset_pair accepts exactly the inputs that, spaces removed, are
\* CODE:ISSUER->CODE:ISSUER (one "->", one ':' in each part); every other
\* input is answered with BadRequest, status 400, never with a server error.
C26_MalformedPairIsBadRequest ==
  calc.fn = "parse_asset_pair" =>
    /\ calc.out.status \in {"Ok", "BadRequest"}
    /\ calc.out.status = "Ok" <=> WellFormed(calc.args[1])
    /\ ~WellFormed(calc.args[1]) =>
         /\ StatusCode(calc.out.status) = 400
         /\ calc.out.key = {}
    /\ calc.out.status = "Ok" => calc.out.key # {}

\* An input with three parts around two arrows was rejected with BadRequest.
C26_Witness ==
  /\ calc.fn = "parse_asset_pair"
  /\ calc.args[1] = <<":", "-", ">", ":", "-", ">">>
  /\ calc.out.status = "BadRequest"

\* ================================================================ CacheStats (hit_rate, stats response)
\* The counters are u64; they are modelled as words of WordBits bits, so that
\* the sums the code computes overflow within reach.
WordBits == 3
Word == 2 ^ WordBits
U64 == 0..(Word - 1)

\* The two builds: with overflow checks (a + on u64 that overflows panics)
\* and without (it wraps).
Builds == {"overflow-checks", "wrapping"}

\* self.hits + self.misses on u64.
add_u64(a, b, build) ==
  IF a + b < Word THEN [panic |-> FALSE, val |-> a + b]
  ELSE IF build = "overflow-checks" THEN [panic |-> TRUE, val |-> 0]
  ELSE [panic |-> FALSE, val |-> (a + b) % Word]

\* A rate as the fraction num/den it is the quotient of (the rounding of the
\* f64 division is not modelled).
Frac(num, den) == [num |-> num, den |-> den]
SameRate(a, b) == a.num * b.den = b.num * a.den

\* CacheStats::hit_rate.
hit_rate(stats, build) ==
  LET total == add_u64(stats.hits, stats.misses, build)
  IN  IF total.panic THEN [panic |-> TRUE, rate |-> Frac(0, 1)]
      ELSE IF total.val = 0 THEN [panic |-> FALSE, rate |-> Frac(0, 1)]
      ELSE [panic |-> FALSE, rate |-> Frac(stats.hits * 100, total.val)]

\* impl From<CacheStats> for CacheStatsResponse.
CacheStatsResponse_from(stats, build) ==
  LET total_requests == add_u64(stats.hits, stats.misses, build)
      rate == hit_rate(stats, build)
  IN  IF total_requests.panic \/ rate.panic
      THEN [panic |-> TRUE, hits |-> 0, misses |-> 0, invalidations |-> 0,
            hit_rate_percent |-> Frac(0, 1), total_requests |-> 0]
      ELSE [panic |-> FALSE, hits |-> stats.hits, misses |-> stats.misses,
            invalidations |-> stats.invalidations,
            hit_rate_percent |-> rate.rate, total_requests |-> total_requests.val]

\* The CacheStats values: the struct and its fields are public.
AllCacheStats == [hits : U64, misses : U64, invalidations : {0, Word - 1}]

\* One call of hit_rate, and one conversion into the response, on any value
\* and in either build.

call_hit_rate ==
  /\ calc.fn = "-"
  /\ \E stats \in AllCacheStats, build \in Builds :
       calc' = Applied("hit_rate", <<stats, build>>, hit_rate(stats, build))
  /\ UNCHANGED notCalc

call_CacheStatsResponse_from ==
  /\ calc.fn = "-"
  /\ \E stats \in AllCacheStats, build \in Builds :
       calc' = Applied("from", <<stats, build>>, CacheStatsResponse_from(stats, build))
  /\ UNCHANGED notCalc

InitStats ==
  /\ redis_connection \in BOOLEAN
  /\ store = [k \in ResyncKeys |-> Absent]
  /\ hits = 0 /\ misses = 0 /\ invalidations = 0
  /\ task = [p \in Procs |-> Idle]
  /\ nOps = 0 /\ nGets = 0 /\ nResets = 0
  /\ written = [k \in Keys |-> NoValue]
  /\ seen = [p \in Procs |-> {}]
  /\ fetch = [p \in Procs |-> FetchIdle]
  /\ keylog = [k \in ResyncKeys |-> NoLog]
  /\ ingest = IngestStart
  /\ resync = ResyncStart
  /\ limiter = LimiterStart
  /\ boot = BootStart
  /\ lock = LockStart
  /\ request = RequestStart /\ calc = CalcStart

NextStats ==
  \/ call_hit_rate
  \/ call_CacheStatsResponse_from

SpecStats == InitStats /\ [][NextStats]_vars

\* hits / (hits + misses) * 100, and 0 when both are 0.
ExpectedRate(stats) ==
  IF stats.hits = 0 /\ stats.misses = 0 THEN Frac(0, 1)
  ELSE Frac(stats.hits * 100, stats.hits + stats.misses)

\* C25: for every CacheStats value hit_rate returns hits / (hits + misses) *
\* 100, and 0 when hits = misses = 0; the stats response carries that value
\* as hit_rate_percent, total_requests = hits + misses, and the three
\* counters unchanged.
C25_HitRateForEveryStats ==
  LET stats == calc.args[1] IN
  /\ calc.fn = "hit_rate" =>
       /\ ~calc.out.panic
       /\ SameRate(calc.out.rate, ExpectedRate(stats))
  /\ calc.fn = "from" =>
       /\ ~calc.out.panic
       /\ SameRate(calc.out.hit_rate_percent, ExpectedRate(stats))
       /\ calc.out.total_requests = stats.hits + stats.misses
       /\ calc.out.hits = stats.hits /\ calc.out.misses = stats.misses
       /\ calc.out.invalidations = stats.invalidations

\* ================================================================ connection lock (RwLock)
\* Every cache operation begins with
\*   if let Some(conn) = self.redis_connection.read().await.as_ref() { .. }
\* The read guard is a temporary of the scrutinee, so it lives to the end of
\* the if-let: over conn.clone() and every store call of the body.  A replace
\* of the connection takes the write half of the lock.

\* Replaces of the connection over a run.
MaxReplace == 2
\* Keys a KEYS call returns at most.
MaxScan == 2

\* The operations that take the guard, and the store calls each makes at
\* first (delete_pattern: KEYS, then one DEL per key returned).
Kinds == {"get", "set", "delete", "delete_pattern"}

\* Where in an operation the read guard is held.
HoldsGuardUntilClone(pc) == pc = "clone"
HoldsGuard(pc) == pc \in {"clone", "store", "end"}

\* The tasks holding the read guard.
Readers == {p \in Procs : HoldsGuard(lock.op[p].pc)}

\* Variables the lock leaves alone.
notLock ==
  <<redis_connection, store, hits, misses, invalidations, task, nOps, nGets,
    nResets, written, seen, fetch, keylog, ingest, resync, limiter, boot, request,
    calc>>

\* self.redis_connection.read().await returns: no writer holds the lock and
\* none is queued (the lock serves a queued writer before later readers).
read(p, kind) ==
  /\ lock.op[p].pc = "idle"
  /\ lock.writer = "idle"
  /\ lock' = [lock EXCEPT !.op[p] = [kind |-> kind, pc |-> "clone", left |-> 1]]
  /\ UNCHANGED notLock

\* let mut conn = conn.clone(); the first store call is sent.
conn_clone(p) ==
  /\ lock.op[p].pc = "clone"
  /\ lock' = [lock EXCEPT !.op[p].pc = "store"]
  /\ UNCHANGED notLock

\* A store call (query_async) of the operation returns.  The KEYS call of
\* delete_pattern returns the keys to delete, one DEL each.
query_async(p) ==
  /\ lock.op[p].pc = "store"
  /\ \E n \in 0..MaxScan :
       LET scan == lock.op[p].kind = "delete_pattern" /\ lock.op[p].left = 1
                   /\ n > 0
           left == IF scan THEN n + 1 ELSE lock.op[p].left
       IN  /\ scan \/ n = 0
           /\ lock' = [lock EXCEPT
                         !.op[p].kind = IF scan THEN "delete_pattern:DEL" ELSE @,
                         !.op[p].left = left - 1,
                         !.op[p].pc = IF left - 1 = 0 THEN "end" ELSE "store"]
  /\ UNCHANGED notLock

\* The if-let ends and the operation returns: the guard is dropped.
if_let_end(p) ==
  /\ lock.op[p].pc = "end"
  /\ lock' = [lock EXCEPT !.op[p] = NoOp]
  /\ UNCHANGED notLock

\* A replace of the connection asks for the write half.
write_requested ==
  /\ lock.writer = "idle"
  /\ lock.version < MaxReplace
  /\ lock' = [lock EXCEPT !.writer = "waiting"]
  /\ UNCHANGED notLock

\* The write guard is granted when no read guard is held; the connection is
\* replaced.
write_granted ==
  /\ lock.writer = "waiting"
  /\ Readers = {}
  /\ lock' = [lock EXCEPT !.writer = "holding", !.version = @ + 1]
  /\ UNCHANGED notLock

\* The write guard is dropped.
write_dropped ==
  /\ lock.writer = "holding"
  /\ lock' = [lock EXCEPT !.writer = "idle"]
  /\ UNCHANGED notLock

InitLock ==
  /\ redis_connection = TRUE
  /\ store = [k \in ResyncKeys |-> Absent]
  /\ hits = 0 /\ misses = 0 /\ invalidations = 0
  /\ task = [p \in Procs |-> Idle]
  /\ nOps = 0 /\ nGets = 0 /\ nResets = 0
  /\ written = [k \in Keys |-> NoValue]
  /\ seen = [p \in Procs |-> {}]
  /\ fetch = [p \in Procs |-> FetchIdle]
  /\ keylog = [k \in ResyncKeys |-> NoLog]
  /\ ingest = IngestStart
  /\ resync = ResyncStart
  /\ limiter = LimiterStart
  /\ boot = BootStart
  /\ lock = LockStart
  /\ request = RequestStart /\ calc = CalcStart

NextLock ==
  \/ \E p \in Procs :
       \/ \E kind \in Kinds : read(p, kind)
       \/ conn_clone(p)
       \/ query_async(p)
       \/ if_let_end(p)
  \/ write_requested
  \/ write_granted
  \/ write_dropped

SpecLock == InitLock /\ [][NextLock]_vars

\* The operations in flight: past the read(), not yet returned.
InFlight == {p \in Procs : lock.op[p].pc # "idle"}

\* C27: an operation holds the read guard from its read() to its return,
\* over all of its store calls and over the whole KEYS + DEL scan of
\* delete_pattern; while the write guard of a replace is held no operation is
\* in flight, and the connection is never replaced in a step during which an
\* operation is in flight.
C27_ReadGuardHeldAcrossStoreCalls ==
  /\ [](/\ InFlight \subseteq Readers
        /\ lock.writer = "holding" => InFlight = {})
  /\ [][lock'.version # lock.version => InFlight = {}]_vars

\* Two operations are in flight at once, one of them a delete_pattern in the
\* middle of its DEL scan, while a replace waits for the write guard.
C27_Witness ==
  /\ InFlight = Procs
  /\ \E p \in Procs :
       /\ lock.op[p].kind = "delete_pattern:DEL"
       /\ lock.op[p].pc = "store" /\ lock.op[p].left = 1
  /\ \A p \in Procs : lock.op[p].pc = "store"
  /\ lock.writer = "waiting"

\* ================================================================ the two background loops together
\* The ledger ingestion task and the metrics resync task run side by side on
\* the runtime; neither awaits the other and they share no lock.  The store
\* is empty here: the deletions of a cycle are those of the resync section.

InitLoops == InitResync

NextLoops ==
  \/ run_ingestion
  \/ sleep_elapsed
  \/ yield_now_resumed
  \/ ledger_closes
  \/ interval_tick
  \/ sync_all_metrics
  \/ invalidate_KEYS

SpecLoops == InitLoops /\ [][NextLoops]_vars

\* The runtime keeps scheduling both tasks and their timers fire.
SpecLoopsFair ==
  /\ InitLoops /\ [][NextLoops]_vars
  /\ WF_vars(run_ingestion) /\ WF_vars(sleep_elapsed) /\ WF_vars(yield_now_resumed)
  /\ WF_vars(interval_tick) /\ WF_vars(sync_all_metrics) /\ WF_vars(invalidate_KEYS)

\* Each loop's next step can be taken whatever the other loop is doing.
NextStepEnabled ==
  /\ ingest.pc = "run_ingestion" => ENABLED run_ingestion
  /\ ingest.pc = "sleep" => ENABLED sleep_elapsed
  /\ ingest.pc = "yield_now" => ENABLED yield_now_resumed
  /\ (resync.pc = "tick" /\ resync.cycles < MaxCycles) => ENABLED interval_tick
  /\ resync.pc = "sync_all_metrics" => ENABLED sync_all_metrics
  /\ resync.pc = "KEYS" => ENABLED invalidate_KEYS

\* C30: the two loops are independent and endless.  Neither is ever at an
\* exit; each one's next step is enabled whatever the other is doing (asleep,
\* backing off after an error, or in the middle of a cycle); no step of one
\* changes the other; a cycle whose sync succeeded calls the invalidation of
\* every domain even when one of them failed; and each loop keeps coming
\* back to the top: the catch-up loop to its next run_ingestion, the resync
\* loop to its next tick.
C30_LoopsIndependentAndEndless ==
  /\ [](/\ ingest.pc \in {"run_ingestion", "sleep", "yield_now"}
        /\ resync.pc \in {"tick", "sync_all_metrics", "KEYS"}
        /\ NextStepEnabled
        /\ (resync.pc = "tick" /\ resync.synced = "Ok") => resync.calls = Domains)
  /\ [][/\ ingest' # ingest => resync' = resync
        /\ resync' # resync => ingest' = ingest]_vars
  /\ \A b \in BOOLEAN : (ingest.epoch = b) ~> (ingest.epoch # b)
  /\ (resync.pc # "tick") ~> (resync.pc = "tick")

\* A cycle whose sync succeeded has ended with all three invalidations called
\* although one failed, while the catch-up loop is in its 10-second backoff
\* after an error.
C30_Witness ==
  /\ resync.pc = "tick" /\ resync.synced = "Ok"
  /\ resync.calls = Domains /\ ~resync.allok
  /\ ingest.pc = "sleep" /\ ingest.secs = 10 /\ ingest.result = "Err"
====
